---- MODULE Spec2Model ----
(***************************************************************************)
(* A model of bin/ajax, the cleaning tool that removes old data from the   *)
(* event builders: the runs database (run_coll), the disks (fs), the       *)
(* control thread of one ajax process and its deletion threads.            *)
(***************************************************************************)
EXTENDS Integers, Sequences, FiniteSets, TLC

\* ------------------------------------------------------------------ bounds

\* Run numbers registered (or stored) in a modelled world: 1..MaxRuns.
MaxRuns == 2
\* Location entries a run document starts with, at most.
MaxEntries == 3
\* Timestamps now() hands out to deletion records: 1..MaxClock.
MaxClock == 8
\* Deletion threads alive at the same time, at most (a guard on Thread.start).
MaxThreads == 3
\* Folders missing from disk or stored without being registered, at most,
\* when ajax starts.
MaxFsDev == 1
\* Depth of the self-recursion of clean_ceph / clean_abandoned at which the
\* interpreter raises RecursionError.
MaxDepth == 3
\* Calls of delete_data for one location entry, when delete_data is studied
\* on its own.
MaxCalls == 2

\* -------------------------------------------------------------- parameters

eb_can_clean_ceph == "eb0"
Hosts == {"eb0", "eb1"}
DAQ == "daq"
RunNumbers == 1 .. MaxRuns

\* Data types of the modelled world.  "raw_records_nv" contains "raw_records"
\* without being equal to it; "peaklets" is low-level without being raw.
DataTypes == {"live", "raw_records", "raw_records_nv", "peaklets", "event_info"}

\* data_type == "raw_records" instead of "raw_records" in data_type: a
\* variant that must fail C36_RawKeptWithoutLive
InRawRecordsExact(data_type) == data_type = "raw_records"

\* "raw_records" in data_type
InRawRecords(data_type) == data_type \in {"raw_records", "raw_records_nv"}

\* re.findall("|".join(low_level_data), data_type)
low_level_data(data_type) ==
    data_type \in {"raw_records", "raw_records_nv", "peaklets"}

i_max_confirm == 1
i_max_default == 5

\* ------------------------------------------------------------------- paths
\* A path is a tuple of strings.  A folder of processed data is
\* <<folder, host, run_id, data_type, lineage_hash>>, named
\* run_id-data_type-lineage_hash in output_folder, pre_folder or
\* non_registered_folder on the disk of host; its shadow folder has "_temp"
\* appended.  ceph_location is the location every live entry registers; the
\* live data of a run is ceph_location/run_id.

RunId(n) == IF n = 1 THEN "000001" ELSE IF n = 2 THEN "000002" ELSE "000003"

\* int(run_id)
RunNumber(run_id) == CHOOSE n \in 1 .. 3 : RunId(n) = run_id

ceph_location == <<"live_data">>
output_folder == "output"
pre_folder == "pre"
non_registered_folder == "non_registered"

current_hash == "cur"
Folder(root, h, n, t, hash) == <<root, h, RunId(n), t, hash>>
OutPath(h, n, t) == Folder(output_folder, h, n, t, current_hash)
TempOf(path) == Append(path, "_temp")
JoinRunId(path, n) == Append(path, RunId(n))

IsPrefix(p, q) == Len(p) <= Len(q) /\ SubSeq(q, 1, Len(p)) = p

\* os.path.exists: the folder is on disk; a folder below ceph_location only
\* when ceph is mounted (ceph_location itself is there)
Exists(disk, path) ==
    /\ path \in disk
    /\ IsPrefix(ceph_location, path) => ceph_location \in disk

\* shutil.rmtree: the folder and, on ceph, everything below it (a folder of
\* processed data holds files only; its _temp folder is a folder beside it)
Rmtree(disk, path) ==
    { q \in disk : ~(q = path \/ (IsPrefix(ceph_location, path) /\ IsPrefix(path, q))) }

\* os.listdir(folder) on the disk of host hn
listdir(disk, root, hn) ==
    IF <<root>> = ceph_location
    THEN { q \in disk : Len(q) = 2 /\ q[1] = root /\ ceph_location \in disk }
    ELSE { q \in disk : Len(q) >= 5 /\ q[1] = root /\ q[2] = hn }

\* folder.split("-"): the run_id, the data type and the lineage hash of a name
RunIdOf(path) == IF Len(path) = 2 THEN path[2] ELSE path[3]
TypeOf(path) == IF Len(path) = 2 THEN "live" ELSE path[4]
HashOf(path) == IF Len(path) = 5 THEN path[5] ELSE "_temp"

\* location.startswith(folder)
StartsWith(location, root) == location[1] = root

\* shutil.rmtree in the place of shutil.move: a variant that must fail
\* C37_MovedNeverRemoved
MoveToNonRegisteredRmtree(disk, path) == disk \ {path}

\* shutil.move(src, dst) into non_registered_folder
MoveToNonRegistered(disk, path) ==
    (disk \ {path}) \cup {[path EXCEPT ![1] = non_registered_folder]}

\* ------------------------------------------------------- the runs database
\* A run document: number, bootstrax.state, status, whether start and
\* bootstrax.time are older than the thresholds of ajax_thresholds,
\* bootstrax.host, the location entries (data) and deleted_data.

Ddoc(t, h, loc) == [type |-> t, host |-> h, location |-> loc]

\* check_rundoc_for_live_and_raw: the loop over rd["data"]
RECURSIVE CountType(_, _, _)
CountType(data, t, k) ==
    IF k > Len(data) THEN 0
    ELSE (IF data[k].type = t THEN 1 ELSE 0) + CountType(data, t, k + 1)

\* check_rundoc_for_live_and_raw counting every data type whose name holds
\* "raw_records": a variant that must fail C35_UnsafeLiveKept
check_rundoc_for_live_and_rawLoose(rd) ==
    [n_live_data |-> CountType(rd.data, "live", 1),
     n_raw_records |-> Cardinality({ k \in DOMAIN rd.data : InRawRecords(rd.data[k].type) })]

check_rundoc_for_live_and_raw(rd) ==
    [n_live_data |-> CountType(rd.data, "live", 1),
     n_raw_records |-> CountType(rd.data, "raw_records", 1)]

\* SafetyCheckOk with a strict comparison: a variant that must fail C2_SafetyCheck
SafetyCheckOkOff(rd, data_type) ==
    LET c == check_rundoc_for_live_and_raw(rd)
    IN  c.n_live_data # 0
        \/ c.n_raw_records > 1 + (IF InRawRecords(data_type) THEN 1 ELSE 0)

\* the condition of delete_data's check:
\*   n_live or n_rr >= 1 + int("raw_records" in data_type)
SafetyCheckOk(rd, data_type) ==
    LET c == check_rundoc_for_live_and_raw(rd)
    IN  c.n_live_data # 0
        \/ c.n_raw_records >= 1 + (IF InRawRecords(data_type) THEN 1 ELSE 0)

\* the filter of the $pull: {"type": data_type, "host": {"$in": ["daq", hostname]}}
PullMatches(dd, data_type, hn) == dd.type = data_type /\ dd.host \in {DAQ, hn}

\* for ddoc in rd["data"]: if <match>: break   -- the first match, else the
\* last entry the loop visited
RECURSIVE FirstMatch(_, _, _, _)
FirstMatch(data, data_type, hn, k) ==
    IF k >= Len(data) THEN Len(data)
    ELSE IF PullMatches(data[k], data_type, hn) THEN k
    ELSE FirstMatch(data, data_type, hn, k + 1)

\* ddoc with location popped and at, by, reason set
DeletionRecord(rd, data_type, hn, at, reason) ==
    LET dd == rd.data[FirstMatch(rd.data, data_type, hn, 1)]
    IN  [type |-> dd.type, host |-> dd.host, at |-> at, by |-> hn, reason |-> reason]

\* $addToSet
AddToSet(s, e) == IF \E k \in DOMAIN s : s[k] = e THEN s ELSE Append(s, e)

\* $pull
Pull(data, data_type, hn) == SelectSeq(data, LAMBDA dd : ~PullMatches(dd, data_type, hn))

\* update_one writing the deletion record with $set instead of $addToSet: a
\* variant that must fail C24_OnlyRemoveAndAppend
update_oneSet(coll, number, rec, data_type, hn) ==
    IF number \notin DOMAIN coll THEN coll
    ELSE [coll EXCEPT ![number] =
            [@ EXCEPT !.deleted_data = <<rec>>,
                      !.data = Pull(@, data_type, hn)]]

\* run_coll.update_one({"_id": rd["_id"]}, {"$addToSet": ..., "$pull": ...})
update_one(coll, number, rec, data_type, hn) ==
    IF number \notin DOMAIN coll THEN coll
    ELSE [coll EXCEPT ![number] =
            [@ EXCEPT !.deleted_data = AddToSet(@, rec),
                      !.data = Pull(@, data_type, hn)]]

\* run_coll.find_one / find: the documents that match, in natural order (the
\* order of their run numbers)
\* the documents of a collection
Docs(coll) == {coll[n] : n \in DOMAIN coll}

RECURSIVE FindFrom(_, _, _)
FindFrom(coll, query, n) ==
    IF n > MaxRuns THEN <<>>
    ELSE (IF n \in DOMAIN coll /\ query[coll[n]] THEN <<coll[n]>> ELSE <<>>)
         \o FindFrom(coll, query, n + 1)

\* query: the filter document, as the truth value it gives each document
find(coll, query) == FindFrom(coll, query, 1)

\* "data.host": h  -- some location entry has this host
HasHost(rd, h) == \E k \in DOMAIN rd.data : rd.data[k].host = h
HasType(rd, t) == \E k \in DOMAIN rd.data : rd.data[k].type = t
HasLocation(rd, loc) == \E k \in DOMAIN rd.data : rd.data[k].location = loc

\* ------------------------------------------------------------------- state

VARIABLES
    isAlive,    \* threading.Thread has the method isAlive (Python before 3.9)
    signal,     \* the KeyboardInterrupt or SystemExit that arrived, "" if none
    hostname,   \* socket.getfqdn()
    args,       \* the parsed command line
    run_coll,   \* the runs database: run number -> run document
    fs,         \* the folders that exist (the disks of the hosts and ceph)
    clock,      \* now(), as the number of deletion records written so far
    threads,    \* the deletion threads that are alive, in the order started
    pc,         \* where the control thread is
    ret,        \* the return addresses of the calls in progress
    m,          \* locals of the cleaning mode in progress
    r,          \* locals of remove_run_from_host
    d,          \* locals of the delete_data call of the control thread
    exc,        \* the exception being raised in the control thread
    ev,         \* what the last step reported (log lines, warnings)
    override,   \* some deletion was requested with ignore_low_data_check
    run_coll0,  \* the runs database when ajax started
    fs0,        \* the folders when ajax started
    peer        \* a second ajax process, on the other host (clean_non_latest)

vars == <<isAlive, signal, hostname, args, run_coll, fs, clock, threads, pc, ret, m, r, d, exc,
          ev, override, run_coll0, fs0, peer>>

NoRd == [number |-> 0, state |-> "", status |-> "", start_old |-> FALSE,
         bt_old |-> FALSE, bhost |-> "", data |-> <<>>, deleted_data |-> <<>>]
NoDd == [rd |-> NoRd, path |-> <<>>, type |-> "", test |-> TRUE, ignore |-> FALSE,
         reason |-> "", violation |-> FALSE]
NoR == [number |-> 0, delete_live |-> FALSE, force |-> FALSE, reason |-> "",
        rd |-> NoRd, di |-> 0]
NoM == [name |-> "", delete_live |-> FALSE, rds |-> <<>>, k |-> 0, i |-> 0, depth |-> 0,
        folders |-> {}]
NoPeer == [pc |-> "", rds |-> <<>>, k |-> 0, i |-> 0, d |-> NoDd]
\* what a step reports: the kind of log line, the run and data type it is
\* about, for a step of delete_data the call (dd) and the thread (who), and
\* the answer read at the prompt of confirm ("" when the step did not ask)
NoEv == [kind |-> "", run |-> 0, type |-> "", who |-> "", dd |-> NoDd, answer |-> ""]
Ev(kind, run, type) == [NoEv EXCEPT !.kind = kind, !.run = run, !.type = type]
EvDd(kind, who, dd) ==
    [kind |-> kind, run |-> dd.rd.number, type |-> dd.type, who |-> who, dd |-> dd,
     answer |-> ""]

\* the outcome of lines 526-545, as logged
CheckKind(res) ==
    IF res.raise # ""
    THEN (IF res.violation THEN "integrity_error" ELSE "rmtree_error")
    ELSE (IF res.violation THEN "integrity_warning" ELSE "checked")

\* the outcome of lines 547-571, as logged
UpdateKind(res, clk) ==
    IF res.raise # "" THEN "not_deleted_error"
    ELSE IF res.clock # clk THEN "updated" ELSE "no_update"

Answers == {"y", "n", "other"}

\* confirm taking every answer but "n" for a yes: a variant that must fail
\* C23_ConfirmedOnly
confirmUnlessNo(a, ans) == IF ~a.ask_confirm THEN TRUE ELSE ans # "n"

\* confirm(question): True without --ask_confirm, else whether the answer is "y"
\* (any other answer than y/n asks again and returns None)
confirm(a, ans) == IF ~a.ask_confirm THEN TRUE ELSE ans = "y"

\* what confirm read from the terminal: input() is called under --ask_confirm
\* only
Prompt(a, ans) == IF a.ask_confirm THEN ans ELSE ""

Dd(rd, path, type, test, ignore, reason) ==
    [rd |-> rd, path |-> path, type |-> type, test |-> test, ignore |-> ignore,
     reason |-> reason, violation |-> FALSE]

\* ------------------------------------------------------------- delete_data
\* delete_data runs in two steps: the check of the copies and the removal of
\* the folder (lines 526-545), then the update of the run document (547-571).

\* _rmtree(path): shutil.rmtree under --production once confirmed; rm_ok is
\* whether shutil.rmtree succeeds
rmtree(a, disk, path, ans, rm_ok) ==
    IF a.production
    THEN [answer |-> Prompt(a, ans)] @@
         (IF confirm(a, ans)
          THEN IF rm_ok THEN [raise |-> "", fs |-> Rmtree(disk, path)]
               ELSE [raise |-> "OSError", fs |-> disk]
          ELSE [raise |-> "", fs |-> disk])
    ELSE IF ~Exists(disk, path) THEN [raise |-> "ValueError", fs |-> disk, answer |-> ""]
         ELSE [raise |-> "", fs |-> disk, answer |-> ""]

\* DeleteDataCheck that never raises on a failed check: a variant that must
\* fail C6_EntryStays
DeleteDataCheckNoRaise(dd, a, disk, ans, rm_ok) ==
    LET violation == ~dd.ignore /\ ~SafetyCheckOk(dd.rd, dd.type)
    IN  IF Exists(disk, dd.path) /\ ~dd.test
        THEN [violation |-> violation] @@ rmtree(a, disk, dd.path, ans, rm_ok)
        ELSE [violation |-> violation, raise |-> "", fs |-> disk, answer |-> ""]

\* lines 526-545
DeleteDataCheck(dd, a, disk, ans, rm_ok) ==
    LET violation == ~dd.ignore /\ ~SafetyCheckOk(dd.rd, dd.type)
    IN  IF violation /\ ~dd.test
        THEN [violation |-> TRUE, raise |-> "ValueError", fs |-> disk, answer |-> ""]
        ELSE IF Exists(disk, dd.path) /\ ~dd.test
        THEN [violation |-> violation] @@ rmtree(a, disk, dd.path, ans, rm_ok)
        ELSE [violation |-> violation, raise |-> "", fs |-> disk, answer |-> ""]

\* DeleteDataUpdate writing the run document in a dry run as well: a variant
\* that must fail C3_DryRunMutatesNothing
DeleteDataUpdateAlways(dd, a, hn, disk, coll, clk, ans) ==
    IF ~Exists(disk, dd.path)
    THEN IF Len(dd.rd.data) = 0
         THEN [raise |-> "UnboundLocalError", coll |-> coll, clock |-> clk, answer |-> ""]
         ELSE [raise |-> "",
               coll |-> update_one(coll, dd.rd.number,
                                   DeletionRecord(dd.rd, dd.type, hn, clk + 1, dd.reason),
                                   dd.type, hn),
               clock |-> clk + 1, answer |-> ""]
    ELSE [raise |-> "", coll |-> coll, clock |-> clk, answer |-> ""]

\* lines 547-571
DeleteDataUpdate(dd, a, hn, disk, coll, clk, ans) ==
    IF ~Exists(disk, dd.path)
    THEN IF Len(dd.rd.data) = 0
         THEN [raise |-> "UnboundLocalError", coll |-> coll, clock |-> clk, answer |-> ""]
         ELSE IF a.production /\ ~dd.test
         THEN [answer |-> Prompt(a, ans)] @@
              (IF confirm(a, ans)
               THEN [raise |-> "",
                     coll |-> update_one(coll, dd.rd.number,
                                         DeletionRecord(dd.rd, dd.type, hn, clk + 1,
                                                        dd.reason),
                                         dd.type, hn),
                     clock |-> clk + 1]
               ELSE [raise |-> "", coll |-> coll, clock |-> clk])
         ELSE [raise |-> "", coll |-> coll, clock |-> clk, answer |-> ""]
    ELSE IF ~dd.test /\ ~a.ask_confirm
    THEN [raise |-> "ValueError", coll |-> coll, clock |-> clk, answer |-> ""]
    ELSE [raise |-> "", coll |-> coll, clock |-> clk, answer |-> ""]

\* ------------------------------------------------- the control thread: calls

Return == pc' = Head(ret) /\ ret' = Tail(ret)

Raise(e) == pc' = "raise" /\ exc' = e /\ ret' = ret

Running == pc \notin {"finished", "crashed", "rejected"}

\* delete_data in the control thread, first step
DdCheck ==
    /\ pc = "dd_check"
    /\ \E ans \in Answers, rm_ok \in BOOLEAN :
         LET res == DeleteDataCheck(d, args, fs, ans, rm_ok)
         IN  /\ fs' = res.fs
             /\ d' = [d EXCEPT !.violation = res.violation]
             /\ ev' = [EvDd(CheckKind(res), "main", d) EXCEPT !.answer = res.answer]
             /\ IF res.raise # ""
                THEN pc' = "raise" /\ exc' = res.raise /\ ret' = ret
                ELSE pc' = "dd_update" /\ exc' = exc /\ ret' = ret
    /\ UNCHANGED <<isAlive, signal, hostname, args, run_coll, clock, threads, m, r,
                   override, run_coll0, fs0, peer>>

\* delete_data in the control thread, second step
DdUpdate ==
    /\ pc = "dd_update"
    /\ clock < MaxClock
    /\ \E ans \in Answers :
         LET res == DeleteDataUpdate(d, args, hostname, fs, run_coll, clock, ans)
         IN  /\ run_coll' = res.coll
             /\ clock' = res.clock
             /\ ev' = [EvDd(UpdateKind(res, clock), "main", d) EXCEPT !.answer = res.answer]
             /\ IF res.raise # ""
                THEN pc' = "raise" /\ exc' = res.raise /\ ret' = ret /\ d' = d
                ELSE Return /\ exc' = exc /\ d' = NoDd
    /\ UNCHANGED <<isAlive, signal, hostname, args, fs, threads, m, r, override, run_coll0,
                   fs0, peer>>

\* ------------------------------------------------------- deletion threads
\* threaded_delete_data starts a daemon thread that runs delete_data.

Thread(dd) == [dd |-> dd, at |-> "check"]

RemoveAt(s, k) == SubSeq(s, 1, k - 1) \o SubSeq(s, k + 1, Len(s))

ThreadCheck(k) ==
    /\ Running
    /\ k \in DOMAIN threads
    /\ threads[k].at = "check"
    /\ \E ans \in Answers, rm_ok \in BOOLEAN :
         LET dd == threads[k].dd
             res == DeleteDataCheck(dd, args, fs, ans, rm_ok)
         IN  /\ fs' = res.fs
             /\ ev' = [EvDd(CheckKind(res), "thread", dd) EXCEPT !.answer = res.answer]
             /\ IF res.raise # ""
                THEN threads' = RemoveAt(threads, k)
                ELSE threads' = [threads EXCEPT ![k] =
                                   [dd |-> [dd EXCEPT !.violation = res.violation],
                                    at |-> "update"]]
    /\ UNCHANGED <<isAlive, signal, hostname, args, run_coll, clock, pc, ret, m, r, d, exc,
                   override, run_coll0, fs0, peer>>

ThreadUpdate(k) ==
    /\ Running
    /\ k \in DOMAIN threads
    /\ threads[k].at = "update"
    /\ clock < MaxClock
    /\ \E ans \in Answers :
         LET dd == threads[k].dd
             res == DeleteDataUpdate(dd, args, hostname, fs, run_coll, clock, ans)
         IN  /\ run_coll' = res.coll
             /\ clock' = res.clock
             /\ threads' = RemoveAt(threads, k)
             /\ ev' = [EvDd(UpdateKind(res, clock), "thread", dd) EXCEPT !.answer = res.answer]
    /\ UNCHANGED <<isAlive, signal, hostname, args, fs, pc, ret, m, r, d, exc, override,
                   run_coll0, fs0, peer>>

\* wait_on_delete_thread: returns when threading.enumerate() holds no thread
\* named ajax_delete*; while one is alive it naps and asks thread.isAlive()
\* again, which raises AttributeError where Thread has no such method
wait_on_delete_thread ==
    /\ pc = "wait_on_delete_thread"
    /\ IF threads = <<>>
       THEN Return /\ exc' = exc
       ELSE ~isAlive /\ Raise("AttributeError")
    /\ ev' = NoEv
    /\ UNCHANGED <<isAlive, signal, hostname, args, run_coll, fs, clock, threads, m, r, d,
                   override, run_coll0, fs0, peer>>

\* threaded_delete_data(rd, path, data_type, test, ignore_low_data_check, reason)
threaded_delete_data(rd, path, data_type, test, ignore, reason) ==
    /\ Len(threads) < MaxThreads
    /\ threads' = Append(threads, Thread(Dd(rd, path, data_type, test, ignore, reason)))

\* ---------------------------------------------------- remove_run_from_host

\* lines 603-610: the query, and the copies the run document registers
RrfhQuery ==
    /\ pc = "rrfh_query"
    /\ LET found == find(run_coll,
                         [rd \in Docs(run_coll) |-> rd.number = r.number
                                     /\ HasHost(rd, IF r.delete_live THEN DAQ ELSE hostname)])
       IN  IF found = <<>>
           THEN /\ Return
                /\ r' = NoR
                /\ ev' = Ev("no_registered_data", r.number, "")
           ELSE /\ pc' = "rrfh_loop"
                /\ ret' = ret
                /\ r' = [r EXCEPT !.rd = found[1], !.di = 1]
                /\ ev' = NoEv
    /\ UNCHANGED <<isAlive, signal, hostname, args, run_coll, fs, clock, threads, m, d,
                   exc, override, run_coll0, fs0, peer>>

\* lines 612-683: one round of the loop over rd["data"]
RrfhLoop ==
    /\ pc = "rrfh_loop"
    /\ LET have == check_rundoc_for_live_and_raw(r.rd)
           have_live_data == have.n_live_data # 0
           have_raw_records == have.n_raw_records # 0
           test == ~args.production
       IN  IF r.di > Len(r.rd.data)
           THEN /\ Return
                /\ r' = NoR
                /\ ev' = NoEv
                /\ UNCHANGED <<threads, d, override>>
           ELSE LET ddoc == r.rd.data[r.di]
                    skip(kind) ==
                        /\ pc' = pc /\ ret' = ret
                        /\ r' = [r EXCEPT !.di = @ + 1]
                        /\ ev' = Ev(kind, r.number, ddoc.type)
                        /\ UNCHANGED <<threads, d, override>>
                IN  IF ddoc.host = hostname
                    THEN IF r.delete_live
                         THEN skip("")
                         ELSE IF ~r.force /\ ~have_live_data /\ InRawRecords(ddoc.type)
                         THEN skip("prevent_raw_records")
                         ELSE /\ d' = Dd(r.rd, ddoc.location, ddoc.type, test, r.force,
                                         r.reason)
                              /\ pc' = "dd_check"
                              /\ ret' = <<"rrfh_temp">> \o ret
                              /\ r' = r
                              /\ ev' = NoEv
                              /\ override' = (override \/ r.force)
                              /\ UNCHANGED threads
                    ELSE IF ddoc.host = DAQ
                    THEN IF ~r.delete_live
                         THEN skip("prevent_live")
                         ELSE IF ~r.force /\ ~have_raw_records
                         THEN skip("unsafe_no_raw_records")
                         ELSE /\ threaded_delete_data(r.rd, JoinRunId(ddoc.location, r.number),
                                                      ddoc.type, test, r.force, r.reason)
                              /\ pc' = pc /\ ret' = ret
                              /\ r' = [r EXCEPT !.di = @ + 1]
                              /\ ev' = Ev("thread_started", r.number, ddoc.type)
                              /\ override' = (override \/ r.force)
                              /\ d' = d
                    ELSE skip("")
    /\ UNCHANGED <<isAlive, signal, hostname, args, run_coll, fs, clock, m, exc, run_coll0,
                   fs0, peer>>

\* lines 636-646: the _temp folder of the entry just deleted
RrfhTemp ==
    /\ pc = "rrfh_temp"
    /\ LET ddoc == r.rd.data[r.di]
           loc == TempOf(ddoc.location)
       IN  /\ r' = [r EXCEPT !.di = @ + 1]
           /\ IF Exists(fs, loc)
              THEN /\ d' = Dd(r.rd, loc, ddoc.type, ~args.production, r.force, r.reason)
                   /\ pc' = "dd_check"
                   /\ ret' = <<"rrfh_loop">> \o ret
              ELSE /\ d' = d
                   /\ pc' = "rrfh_loop"
                   /\ ret' = ret
    /\ ev' = NoEv
    /\ UNCHANGED <<isAlive, signal, hostname, args, run_coll, fs, clock, threads, m, exc,
                   override, run_coll0, fs0, peer>>

\* calling remove_run_from_host(number, delete_live, force, reason)
CallRrfh(number, delete_live, force, reason, back) ==
    /\ r' = [number |-> number, delete_live |-> delete_live, force |-> force,
             reason |-> reason, rd |-> NoRd, di |-> 0]
    /\ pc' = "rrfh_query"
    /\ ret' = back \o ret

\* --------------------------------------------------------- cleaning modes

Modes == {"ceph", "high_level_data", "non_latest", "unregistered", "production",
          "abandoned", "old_hash", "database"}

ModePc(clean) == "clean_" \o clean

CallMode(clean, delete_live, back) ==
    /\ m' = [NoM EXCEPT !.name = clean, !.delete_live = delete_live]
    /\ pc' = ModePc(clean)
    /\ ret' = back \o ret

ReturnFromMode == Return /\ m' = NoM

\* the query of clean_ceph, lines 164-170
CephQuery(rd) ==
    /\ rd.state = "done"
    /\ rd.status = "transferred"
    /\ rd.start_old
    /\ rd.bt_old
    /\ HasType(rd, "live")

\* clean_ceph, lines 159-176
clean_ceph ==
    /\ pc = "clean_ceph"
    /\ IF m.depth >= MaxDepth
       THEN /\ Raise("RecursionError")
            /\ ev' = NoEv
            /\ UNCHANGED <<m, r>>
       ELSE IF hostname # eb_can_clean_ceph
       THEN /\ ReturnFromMode
            /\ ev' = Ev("go_to_eb_can_clean_ceph", 0, "")
            /\ UNCHANGED <<r, exc>>
       ELSE LET found == find(run_coll, [rd \in Docs(run_coll) |-> CephQuery(rd)])
            IN  IF found = <<>>
                THEN /\ ReturnFromMode
                     /\ ev' = NoEv
                     /\ UNCHANGED <<r, exc>>
                ELSE /\ CallRrfh(found[1].number, TRUE, args.force, "clean ceph",
                                  <<"clean_ceph_nap">>)
                     /\ m' = [m EXCEPT !.i = @ + 1]
                     /\ ev' = Ev("remove_run", found[1].number, "")
                     /\ exc' = exc
    /\ UNCHANGED <<isAlive, signal, hostname, args, run_coll, fs, clock, threads, d,
                   override, run_coll0, fs0, peer>>

\* clean_ceph_nap calling clean_ceph again in a dry run as well: a variant
\* that must fail C26_DryRunOnePass
clean_ceph_napAlways ==
    /\ pc = "clean_ceph_nap"
    /\ pc' = "wait_on_delete_thread"
    /\ ret' = <<"clean_ceph">> \o ret
    /\ m' = [m EXCEPT !.depth = @ + 1]
    /\ ev' = NoEv
    /\ UNCHANGED <<isAlive, signal, hostname, args, run_coll, fs, clock, threads, r, d,
                   exc, override, run_coll0, fs0, peer>>

\* clean_ceph, lines 177-183: the nap, and under --production the wait for
\* the deletion threads and the recursive call
clean_ceph_nap ==
    /\ pc = "clean_ceph_nap"
    /\ IF args.production
       THEN /\ pc' = "wait_on_delete_thread"
            /\ ret' = <<"clean_ceph">> \o ret
            /\ m' = [m EXCEPT !.depth = @ + 1]
       ELSE ReturnFromMode
    /\ ev' = NoEv
    /\ UNCHANGED <<isAlive, signal, hostname, args, run_coll, fs, clock, threads, r, d,
                   exc, override, run_coll0, fs0, peer>>

\* the queries of clean_abandoned, lines 372 and 380-385
AbandonedQuery(rd, hn) == rd.state = "abandoned" /\ HasHost(rd, hn)

AbandonedLiveQuery(rd) ==
    /\ rd.state = "abandoned"
    /\ rd.bt_old
    /\ HasLocation(rd, ceph_location)
    /\ HasHost(rd, DAQ)

\* i_max = 1 if args.ask_confirm else 5
i_max(a) == IF a.ask_confirm THEN i_max_confirm ELSE i_max_default

\* clean_abandoned, lines 368-385: the query
clean_abandoned ==
    /\ pc = "clean_abandoned"
    /\ IF m.depth >= MaxDepth
       THEN /\ Raise("RecursionError")
            /\ ev' = NoEv
            /\ m' = m
       ELSE LET found == IF m.delete_live
                         THEN find(run_coll,
                                   [rd \in Docs(run_coll) |-> AbandonedLiveQuery(rd)])
                         ELSE find(run_coll,
                                   [rd \in Docs(run_coll) |-> AbandonedQuery(rd, hostname)])
            IN  IF ~m.delete_live /\ found = <<>>
                THEN /\ ReturnFromMode
                     /\ ev' = Ev("no_more_matches", 0, "")
                     /\ exc' = exc
                ELSE /\ m' = [m EXCEPT !.rds = IF m.delete_live THEN found
                                                ELSE <<found[1]>>,
                                       !.k = 1, !.i = 0]
                     /\ pc' = "clean_abandoned_loop"
                     /\ ret' = ret
                     /\ ev' = NoEv
                     /\ exc' = exc
    /\ UNCHANGED <<isAlive, signal, hostname, args, run_coll, fs, clock, threads, r, d,
                   override, run_coll0, fs0, peer>>

\* clean_abandoned, lines 388-410: the loop over the runs found, at most i_max
\* of them, and the recursive call under --production
clean_abandoned_loop ==
    /\ pc = "clean_abandoned_loop"
    /\ IF m.k <= Len(m.rds) /\ m.i < i_max(args)
       THEN /\ CallRrfh(m.rds[m.k].number, m.delete_live, TRUE, "run abandonned",
                         <<"clean_abandoned_loop">>)
            /\ m' = [m EXCEPT !.k = @ + 1, !.i = @ + 1]
            /\ ev' = Ev("remove_run", m.rds[m.k].number, "")
       ELSE /\ r' = r
            /\ IF m.i = 0
               THEN /\ ReturnFromMode
                    /\ ev' = Ev("no_more_matches", 0, "")
               ELSE IF args.production
               THEN /\ m' = [m EXCEPT !.depth = @ + 1, !.rds = <<>>, !.k = 0, !.i = 0]
                    /\ IF m.delete_live
                       THEN /\ pc' = "wait_on_delete_thread"
                            /\ ret' = <<"clean_abandoned">> \o ret
                       ELSE /\ pc' = "clean_abandoned"
                            /\ ret' = ret
                    /\ ev' = NoEv
               ELSE /\ ReturnFromMode
                    /\ ev' = NoEv
    /\ UNCHANGED <<isAlive, signal, hostname, args, run_coll, fs, clock, threads, d, exc,
                   override, run_coll0, fs0, peer>>

\* the query of clean_non_latest, lines 244-250
NonLatestQuery(rd, hn) ==
    /\ rd.state = "done"
    /\ rd.status = "transferred"
    /\ rd.bt_old
    /\ rd.bhost # hn
    /\ HasHost(rd, hn)

\* lines 257-261: raw_records stored on one of the other hosts
RawRecordsElsewhere(rd, hn) ==
    \E k \in DOMAIN rd.data : rd.data[k].type = "raw_records" /\ rd.data[k].host # hn

\* the query of clean_database, lines 419-430
DatabaseQuery(rd, h) == rd.state = "done" /\ rd.bt_old /\ HasHost(rd, h)

\* clean_non_latest and clean_database, the query (lines 244-253, 419-433)
clean_query ==
    /\ pc \in {"clean_non_latest", "clean_database"}
    /\ m' = [m EXCEPT !.rds =
                IF pc = "clean_non_latest"
                THEN find(run_coll, [rd \in Docs(run_coll) |-> NonLatestQuery(rd, hostname)])
                ELSE find(run_coll,
                          [rd \in Docs(run_coll) |->
                             DatabaseQuery(rd, IF m.delete_live THEN DAQ ELSE hostname)]),
                     !.k = 1, !.i = 0]
    /\ pc' = "clean_loop"
    /\ ev' = NoEv
    /\ UNCHANGED <<isAlive, signal, hostname, args, run_coll, fs, clock, threads, ret, r,
                   d, exc, override, run_coll0, fs0, peer>>

\* clean_non_latest and clean_database, the loops over the run documents and
\* over their location entries (lines 255-280, 435-454); m.i is the entry,
\* 0 before the run document is looked at
clean_loop ==
    /\ pc = "clean_loop"
    /\ IF m.k > Len(m.rds)
       THEN /\ ReturnFromMode
            /\ ev' = NoEv
            /\ d' = d
       ELSE LET rd == m.rds[m.k]
            IN  IF m.i = 0
                THEN IF m.name = "non_latest" /\ ~RawRecordsElsewhere(rd, hostname)
                     THEN /\ ReturnFromMode
                          /\ ev' = Ev("break_no_raw_records", rd.number, "")
                          /\ d' = d
                     ELSE /\ m' = [m EXCEPT !.i = 1]
                          /\ ev' = NoEv
                          /\ UNCHANGED <<pc, ret, d>>
                ELSE IF m.i > Len(rd.data)
                THEN /\ m' = [m EXCEPT !.k = @ + 1, !.i = 0]
                     /\ ev' = NoEv
                     /\ UNCHANGED <<pc, ret, d>>
                ELSE LET ddoc == rd.data[m.i]
                         loc == ddoc.location
                         mine == \/ ddoc.host = hostname
                                 \/ (m.name = "database" /\ ddoc.host = DAQ /\ m.delete_live)
                         call(path, reason) ==
                             /\ d' = Dd(rd, path, ddoc.type, ~args.production, FALSE, reason)
                             /\ pc' = "dd_check"
                             /\ ret' = <<"clean_loop">> \o ret
                     IN  /\ m' = [m EXCEPT !.i = @ + 1]
                         /\ ev' = NoEv
                         /\ IF ~mine
                            THEN UNCHANGED <<pc, ret, d>>
                            ELSE IF m.name = "non_latest"
                            THEN IF Exists(fs, loc)
                                 THEN call(loc, "non latest")
                                 ELSE call(TempOf(loc), "non latest")
                            ELSE IF ~Exists(fs, loc)
                                 THEN call(loc, "reason already removed from eb?!")
                                 ELSE UNCHANGED <<pc, ret, d>>
    /\ UNCHANGED <<isAlive, signal, hostname, args, run_coll, fs, clock, threads, r, exc,
                   override, run_coll0, fs0, peer>>

\* clean_high_level_data, lines 192-195
clean_high_level_data ==
    /\ pc = "clean_high_level_data"
    /\ Raise("NotImplementedError")
    /\ ev' = NoEv
    /\ UNCHANGED <<isAlive, signal, hostname, args, run_coll, fs, clock, threads, m, r, d,
                   override, run_coll0, fs0, peer>>

\* np.unique(run_ids): the run numbers in increasing order
RECURSIVE unique(_, _)
unique(run_ids, n) ==
    IF n > MaxRuns THEN <<>>
    ELSE (IF n \in run_ids THEN <<n>> ELSE <<>>) \o unique(run_ids, n + 1)

\* clean_production_folder, lines 283-291
clean_production ==
    /\ pc = "clean_production"
    /\ pc' = "clean_unregistered"
    /\ ev' = Ev("bad_idea_warning", 0, "")
    /\ UNCHANGED <<isAlive, signal, hostname, args, run_coll, fs, clock, threads, ret, m,
                   r, d, exc, override, run_coll0, fs0, peer>>

\* _clean_from of clean_unregistered: output_folder when called by
\* clean_production_folder, else pre_folder
clean_from(name) == IF name = "production" THEN output_folder ELSE pre_folder

\* clean_unregistered, lines 303-313: the run numbers stored in the folder
clean_unregistered ==
    /\ pc = "clean_unregistered"
    /\ LET folder_to_check == IF m.delete_live THEN ceph_location[1]
                              ELSE clean_from(m.name)
           all_data == listdir(fs, folder_to_check, hostname)
           run_ids == { RunNumber(RunIdOf(f)) : f \in all_data }
       IN  m' = [m EXCEPT !.rds = unique(run_ids, 1), !.k = 1]
    /\ pc' = "unregistered_loop"
    /\ ev' = NoEv
    /\ UNCHANGED <<isAlive, signal, hostname, args, run_coll, fs, clock, threads, ret, r,
                   d, exc, override, run_coll0, fs0, peer>>

\* clean_unregistered, lines 314-316, and remove_if_unregistered, lines 696-717
unregistered_loop ==
    /\ pc = "unregistered_loop"
    /\ IF m.k > Len(m.rds)
       THEN /\ ReturnFromMode
            /\ ev' = NoEv
       ELSE LET number == m.rds[m.k]
                found == find(run_coll,
                              [rd \in Docs(run_coll) |-> rd.number = number
                                          /\ HasHost(rd, IF m.delete_live THEN DAQ
                                                         ELSE hostname)])
                registered ==
                    /\ found # <<>>
                    /\ \E k \in DOMAIN found[1].data :
                         StartsWith(found[1].data[k].location, clean_from(m.name))
                base_folder == IF m.delete_live THEN ceph_location[1]
                               ELSE clean_from(m.name)
            IN  IF registered
                THEN /\ m' = [m EXCEPT !.k = @ + 1]
                     /\ ev' = NoEv
                     /\ UNCHANGED <<pc, ret>>
                ELSE /\ m' = [m EXCEPT !.folders =
                                { f \in listdir(fs, base_folder, hostname) :
                                    RunIdOf(f) = RunId(number) },
                                       !.i = 0]
                     /\ pc' = "unregistered_run"
                     /\ ret' = ret
                     /\ ev' = Ev("not_registered", number, "")
    /\ UNCHANGED <<isAlive, signal, hostname, args, run_coll, fs, clock, threads, r, d,
                   exc, override, run_coll0, fs0, peer>>

\* _remove_unregistered_run, lines 743-784: one round of the loop over the
\* folders of the run (m.i is deleted_data), in the order os.listdir gives
unregistered_run ==
    /\ pc = "unregistered_run"
    /\ LET number == m.rds[m.k]
       IN  IF m.folders = {}
           THEN IF m.i = 0
                THEN /\ Raise("FileNotFoundError")
                     /\ ev' = Ev("no_data_registered", number, "")
                     /\ UNCHANGED <<m, fs>>
                ELSE /\ m' = [m EXCEPT !.k = @ + 1, !.i = 0]
                     /\ pc' = "unregistered_loop"
                     /\ ev' = NoEv
                     /\ UNCHANGED <<ret, exc, fs>>
           ELSE \E folder \in m.folders, ans \in Answers :
                  LET found == find(run_coll, [rd \in Docs(run_coll) |-> rd.number = number])
                  IN  IF found = <<>>
                      THEN /\ Raise("TypeError")
                           /\ ev' = Ev("TypeError", number, TypeOf(folder))
                           /\ UNCHANGED <<m, fs>>
                      ELSE IF ~SafetyCheckOk(found[1], TypeOf(folder))
                      THEN /\ Raise("ValueError")
                           /\ ev' = Ev("essential_copy", number, TypeOf(folder))
                           /\ UNCHANGED <<m, fs>>
                      ELSE /\ fs' = IF args.production /\ confirm(args, ans)
                                    THEN MoveToNonRegistered(fs, folder)
                                    ELSE fs
                           /\ m' = [m EXCEPT !.folders = @ \ {folder}, !.i = 1]
                           /\ ev' = [Ev("moving", number, TypeOf(folder)) EXCEPT
                                        !.answer = IF args.production
                                                   THEN Prompt(args, ans) ELSE ""]
                           /\ UNCHANGED <<pc, ret, exc>>
    /\ UNCHANGED <<isAlive, signal, hostname, args, run_coll, clock, threads, r, d,
                   override, run_coll0, fs0, peer>>

\* st._plugin_class_registry
plugin_class_registry == DataTypes \ {"live"}

\* the query of clean_old_hash, lines 337-344
OldHashQuery(rd, data_type, hn, number) ==
    /\ rd.state = "done"
    /\ rd.status = "transferred"
    /\ rd.bt_old
    /\ HasType(rd, data_type)
    /\ HasHost(rd, hn)
    /\ rd.number = number

\* clean_old_hash, lines 323-325
clean_old_hash ==
    /\ pc = "clean_old_hash"
    /\ m' = [m EXCEPT !.folders = listdir(fs, output_folder, hostname)]
    /\ pc' = "old_hash_loop"
    /\ ev' = NoEv
    /\ UNCHANGED <<isAlive, signal, hostname, args, run_coll, fs, clock, threads, ret, r,
                   d, exc, override, run_coll0, fs0, peer>>

\* clean_old_hash, lines 326-358: one round of the loop over the folders
old_hash_loop ==
    /\ pc = "old_hash_loop"
    /\ IF m.folders = {}
       THEN /\ ReturnFromMode
            /\ ev' = NoEv
            /\ UNCHANGED <<d, exc>>
       ELSE \E f \in m.folders :
              LET data_type == TypeOf(f)
                  found == find(run_coll,
                                [rd \in Docs(run_coll) |-> OldHashQuery(rd, data_type, hostname,
                                                         RunNumber(RunIdOf(f)))])
                  next == [m EXCEPT !.folders = @ \ {f}]
              IN  IF low_level_data(data_type) \/ HashOf(f) = "_temp"
                  THEN /\ m' = next
                       /\ ev' = NoEv
                       /\ UNCHANGED <<pc, ret, d, exc>>
                  ELSE IF data_type \notin plugin_class_registry
                  THEN /\ m' = next
                       /\ ev' = Ev("not_registered", 0, data_type)
                       /\ UNCHANGED <<pc, ret, d, exc>>
                  ELSE IF current_hash = HashOf(f)
                  THEN /\ m' = next
                       /\ ev' = NoEv
                       /\ UNCHANGED <<pc, ret, d, exc>>
                  ELSE IF InRawRecords(data_type)
                  THEN /\ Raise("ValueError")
                       /\ ev' = Ev("sloppy_regex", 0, data_type)
                       /\ UNCHANGED <<m, d>>
                  ELSE IF found # <<>>
                  THEN /\ m' = next
                       /\ d' = Dd(found[1], f, data_type, ~args.production, FALSE,
                                  "old lineage hash")
                       /\ pc' = "dd_check"
                       /\ ret' = <<"old_hash_loop">> \o ret
                       /\ ev' = Ev("removing_old_hash", found[1].number, data_type)
                       /\ exc' = exc
                  ELSE /\ m' = next
                       /\ ev' = Ev("not_registered_as_done", 0, data_type)
                       /\ UNCHANGED <<pc, ret, d, exc>>
    /\ UNCHANGED <<isAlive, signal, hostname, args, run_coll, fs, clock, threads, r,
                   override, run_coll0, fs0, peer>>

\* ----------------------------------------- a second ajax process (the peer)
\* ajax --clean non_latest --production on the other event builder.  It
\* shares the runs database; its folders are on its own disk.

Other(hn) == IF hn = "eb0" THEN "eb1" ELSE "eb0"

PeerArgs ==
    [number |-> 0, clean |-> "non_latest", delete_live |-> FALSE, force |-> FALSE,
     production |-> TRUE, ask_confirm |-> FALSE]

\* clean_non_latest of the peer, lines 244-253: the query
peer_query ==
    /\ peer.pc = "clean_non_latest"
    /\ peer' = [peer EXCEPT !.pc = "clean_loop",
                            !.rds = find(run_coll,
                                         [rd \in Docs(run_coll) |->
                                            NonLatestQuery(rd, Other(hostname))]),
                            !.k = 1, !.i = 0]
    /\ UNCHANGED <<isAlive, signal, hostname, args, run_coll, fs, clock, threads, pc, ret,
                   m, r, d, exc, ev, override, run_coll0, fs0>>

\* clean_non_latest of the peer, lines 255-280: the loops
peer_loop ==
    /\ peer.pc = "clean_loop"
    /\ LET hn == Other(hostname)
       IN  IF peer.k > Len(peer.rds)
           THEN peer' = [NoPeer EXCEPT !.pc = "finished"]
           ELSE LET rd == peer.rds[peer.k]
                IN  IF peer.i = 0
                    THEN IF ~RawRecordsElsewhere(rd, hn)
                         THEN peer' = [NoPeer EXCEPT !.pc = "finished"]
                         ELSE peer' = [peer EXCEPT !.i = 1]
                    ELSE IF peer.i > Len(rd.data)
                    THEN peer' = [peer EXCEPT !.k = @ + 1, !.i = 0]
                    ELSE LET ddoc == rd.data[peer.i]
                             loc == IF Exists(fs, ddoc.location) THEN ddoc.location
                                    ELSE TempOf(ddoc.location)
                         IN  IF ddoc.host = hn
                             THEN peer' = [peer EXCEPT
                                             !.i = @ + 1,
                                             !.pc = "dd_check",
                                             !.d = Dd(rd, loc, ddoc.type, FALSE, FALSE,
                                                      "non latest")]
                             ELSE peer' = [peer EXCEPT !.i = @ + 1]
    /\ UNCHANGED <<isAlive, signal, hostname, args, run_coll, fs, clock, threads, pc, ret,
                   m, r, d, exc, ev, override, run_coll0, fs0>>

\* delete_data of the peer, lines 526-545
peer_check ==
    /\ peer.pc = "dd_check"
    /\ \E rm_ok \in BOOLEAN :
         LET res == DeleteDataCheck(peer.d, PeerArgs, fs, "y", rm_ok)
         IN  /\ fs' = res.fs
             /\ peer' = IF res.raise # "" THEN [NoPeer EXCEPT !.pc = "crashed"]
                        ELSE [peer EXCEPT !.pc = "dd_update"]
    /\ UNCHANGED <<isAlive, signal, hostname, args, run_coll, clock, threads, pc, ret, m,
                   r, d, exc, ev, override, run_coll0, fs0>>

\* delete_data of the peer, lines 547-571
peer_update ==
    /\ peer.pc = "dd_update"
    /\ clock < MaxClock
    /\ LET res == DeleteDataUpdate(peer.d, PeerArgs, Other(hostname), fs, run_coll,
                                   clock, "y")
       IN  /\ run_coll' = res.coll
           /\ clock' = res.clock
           /\ peer' = IF res.raise # "" THEN [NoPeer EXCEPT !.pc = "crashed"]
                      ELSE [peer EXCEPT !.pc = "clean_loop", !.d = NoDd]
    /\ UNCHANGED <<isAlive, signal, hostname, args, fs, threads, pc, ret, m, r, d, exc, ev,
                   override, run_coll0, fs0>>

\* ------------------------------------------------------------------- main

\* startup without the check of --ask_confirm under --force: a variant that
\* must fail C18_ForceNeedsConfirm
startupNoConfirmCheck ==
    /\ pc = "startup"
    /\ \E ans \in Answers :
         IF args.delete_live /\ args.number = 0
         THEN pc' = "rejected" /\ ev' = Ev("ValueError", 0, "")
         ELSE IF args.force /\ ans # "y"
         THEN pc' = "rejected" /\ ev' = Ev("exit", 0, "")
         ELSE IF args.force /\ args.clean # "abandoned" /\ args.number = 0
         THEN pc' = "rejected" /\ ev' = Ev("NotImplementedError", 0, "")
         ELSE pc' = "main_ajax" /\ ev' = NoEv
    /\ UNCHANGED <<isAlive, signal, hostname, args, run_coll, fs, clock, threads, ret, m,
                   r, d, exc, override, run_coll0, fs0, peer>>

\* __main__, lines 928-950: the checks of the arguments
startup ==
    /\ pc = "startup"
    /\ \E ans \in Answers :
         IF args.delete_live /\ args.number = 0
         THEN pc' = "rejected" /\ ev' = Ev("ValueError", 0, "")
         ELSE IF args.force /\ ~args.ask_confirm
         THEN pc' = "rejected" /\ ev' = Ev("NotImplementedError", 0, "")
         ELSE IF args.force /\ ans # "y"
         THEN pc' = "rejected" /\ ev' = Ev("exit", 0, "")
         ELSE IF args.force /\ args.clean # "abandoned" /\ args.number = 0
         THEN pc' = "rejected" /\ ev' = Ev("NotImplementedError", 0, "")
         ELSE pc' = "main_ajax" /\ ev' = NoEv
    /\ UNCHANGED <<isAlive, signal, hostname, args, run_coll, fs, clock, threads, ret, m,
                   r, d, exc, override, run_coll0, fs0, peer>>

\* main_ajax without the check of the mode table: a variant that must fail
\* C19_UnknownMode
main_ajaxAnyMode ==
    /\ pc = "main_ajax"
    /\ IF args.number # 0
       THEN /\ CallRrfh(args.number, args.delete_live, args.force, "manual",
                         <<"wait_on_delete_thread", "main_return">>)
            /\ ev' = NoEv
            /\ UNCHANGED <<m, exc>>
       ELSE IF args.clean # "all"
       THEN /\ CallMode(args.clean, FALSE, <<"main_second">>)
            /\ ev' = NoEv
            /\ UNCHANGED <<r, exc>>
       ELSE /\ pc' = "all_loop"
            /\ ev' = NoEv
            /\ UNCHANGED <<ret, m, r, exc>>
    /\ UNCHANGED <<isAlive, signal, hostname, args, run_coll, fs, clock, threads, d,
                   override, run_coll0, fs0, peer>>

\* main_ajax, lines 82-111
main_ajax ==
    /\ pc = "main_ajax"
    /\ IF args.number # 0
       THEN /\ CallRrfh(args.number, args.delete_live, args.force, "manual",
                         <<"wait_on_delete_thread", "main_return">>)
            /\ ev' = NoEv
            /\ UNCHANGED <<m, exc>>
       ELSE IF args.clean \notin Modes \cup {"all"}
       THEN /\ Raise("ValueError")
            /\ ev' = Ev("unknown_mode", 0, "")
            /\ UNCHANGED <<m, r>>
       ELSE IF args.clean # "all"
       THEN /\ CallMode(args.clean, FALSE, <<"main_second">>)
            /\ ev' = NoEv
            /\ UNCHANGED <<r, exc>>
       ELSE /\ pc' = "all_loop"
            /\ ev' = NoEv
            /\ UNCHANGED <<ret, m, r, exc>>
    /\ UNCHANGED <<isAlive, signal, hostname, args, run_coll, fs, clock, threads, d,
                   override, run_coll0, fs0, peer>>

\* main_ajax, lines 108-111: the pass over the live data on eb_can_clean_ceph
main_second ==
    /\ pc = "main_second"
    /\ IF hostname = eb_can_clean_ceph /\ args.clean \in {"abandoned", "database"}
       THEN CallMode(args.clean, TRUE, <<"main_return">>)
       ELSE pc' = "main_return" /\ UNCHANGED <<ret, m>>
    /\ ev' = NoEv
    /\ UNCHANGED <<isAlive, signal, hostname, args, run_coll, fs, clock, threads, r, d,
                   exc, override, run_coll0, fs0, peer>>

\* __main__, lines 980-981
main_return ==
    /\ pc = "main_return"
    /\ pc' = "wait_on_delete_thread"
    /\ ret' = <<"finished">>
    /\ ev' = NoEv
    /\ UNCHANGED <<isAlive, signal, hostname, args, run_coll, fs, clock, threads, m, r, d,
                   exc, override, run_coll0, fs0, peer>>

\* the control thread is in one of the except clauses (lines 137-140 or
\* 975-978) or past main_ajax (line 980)
Leaving == ret # <<>> /\ ret[Len(ret)] \in {"crashed", "finished"}

\* the control thread is inside the try of the loop of --clean all
InLoop == args.number = 0 /\ args.clean = "all" /\ ~Leaving

Signals == {"KeyboardInterrupt", "SystemExit"}

\* a KeyboardInterrupt or a SystemExit reaches the control thread while it
\* runs main_ajax; the calls in progress are left
interrupt ==
    /\ Running
    /\ pc \notin {"startup", "raise", "main_return"}
    /\ ~Leaving
    /\ signal = ""
    /\ \E s \in Signals :
         /\ signal' = s
         /\ exc' = s
    /\ pc' = "raise"
    /\ ret' = <<>>
    /\ m' = NoM /\ r' = NoR /\ d' = NoDd
    /\ ev' = NoEv
    /\ UNCHANGED <<isAlive, hostname, args, run_coll, fs, clock, threads, override,
                   run_coll0, fs0, peer>>

\* __main__, lines 975-978: KeyboardInterrupt or SystemExit leaves main_ajax
main_except ==
    /\ pc = "raise"
    /\ ~InLoop /\ ~Leaving
    /\ exc \in Signals
    /\ pc' = "wait_on_delete_thread"
    /\ ret' = <<"crashed">>
    /\ m' = NoM /\ r' = NoR /\ d' = NoDd
    /\ ev' = Ev(exc, 0, "")
    /\ UNCHANGED <<isAlive, signal, hostname, args, run_coll, fs, clock, threads, exc,
                   override, run_coll0, fs0, peer>>

\* any other exception leaves main_ajax, or an exception is raised in an
\* except clause or at line 980: nothing catches it, so the interpreter
\* exits and the daemon threads end with it
uncaught ==
    /\ pc = "raise"
    /\ ~InLoop
    /\ Leaving \/ exc \notin Signals
    /\ pc' = "crashed"
    /\ ret' = <<>>
    /\ m' = NoM /\ r' = NoR /\ d' = NoDd
    /\ ev' = Ev(exc, 0, "")
    /\ UNCHANGED <<isAlive, signal, hostname, args, run_coll, fs, clock, threads, exc,
                   override, run_coll0, fs0, peer>>

\* all_loop calling clean_ceph and the pass over the live data on every
\* host: a variant that must fail C25_LoopSequence
all_loopAnyHost ==
    /\ pc \in {"all_loop", "all_abandoned_live", "all_abandoned", "all_non_latest",
                "all_end"}
    /\ ev' = IF pc = "all_end" /\ args.production THEN Ev("nap_time", 0, "") ELSE NoEv
    /\ IF pc = "all_loop"
       THEN CallMode("ceph", FALSE, <<"all_abandoned_live">>)
       ELSE IF pc = "all_abandoned_live"
       THEN CallMode("abandoned", TRUE, <<"all_abandoned">>)
       ELSE IF pc = "all_abandoned"
       THEN CallMode("abandoned", FALSE, <<"all_non_latest">>)
       ELSE IF pc = "all_non_latest"
       THEN CallMode("non_latest", FALSE, <<"all_end">>)
       ELSE /\ pc' = IF args.production THEN "all_loop" ELSE "main_return"
            /\ UNCHANGED <<ret, m>>
    /\ UNCHANGED <<isAlive, signal, hostname, args, run_coll, fs, clock, threads, r, d,
                   exc, override, run_coll0, fs0, peer>>

\* main_ajax, lines 114-136: the loop of --clean all; a pass that came to its
\* end under --production is followed by the nap of nap_time
all_loop ==
    /\ pc \in {"all_loop", "all_abandoned_live", "all_abandoned", "all_non_latest",
                "all_end"}
    /\ ev' = IF pc = "all_end" /\ args.production THEN Ev("nap_time", 0, "") ELSE NoEv
    /\ IF pc = "all_loop"
       THEN IF hostname = eb_can_clean_ceph
            THEN CallMode("ceph", FALSE, <<"all_abandoned_live">>)
            ELSE pc' = "all_abandoned" /\ UNCHANGED <<ret, m>>
       ELSE IF pc = "all_abandoned_live"
       THEN CallMode("abandoned", TRUE, <<"all_abandoned">>)
       ELSE IF pc = "all_abandoned"
       THEN CallMode("abandoned", FALSE, <<"all_non_latest">>)
       ELSE IF pc = "all_non_latest"
       THEN CallMode("non_latest", FALSE, <<"all_end">>)
       ELSE /\ pc' = IF args.production THEN "all_loop" ELSE "main_return"
            /\ UNCHANGED <<ret, m>>
    /\ UNCHANGED <<isAlive, signal, hostname, args, run_coll, fs, clock, threads, r, d,
                   exc, override, run_coll0, fs0, peer>>

\* caught letting every exception end the loop: a variant that must fail
\* C13_LoopRestarts
caughtEndsLoop ==
    /\ pc = "raise"
    /\ InLoop
    /\ m' = NoM /\ r' = NoR /\ d' = NoDd
    /\ pc' = "wait_on_delete_thread"
    /\ ret' = <<"crashed">>
    /\ ev' = Ev(exc, 0, "")
    /\ exc' = exc
    /\ UNCHANGED <<isAlive, signal, hostname, args, run_coll, fs, clock, threads, override,
                   run_coll0, fs0, peer>>

\* main_ajax, lines 137-149: an exception inside the loop of --clean all.
\* The exception re-raised at line 140 passes through lines 975-978, whose
\* wait finds the threads as the wait of line 139 left them.
caught ==
    /\ pc = "raise"
    /\ InLoop
    /\ m' = NoM /\ r' = NoR /\ d' = NoDd
    /\ IF exc \in Signals \cup {"NotImplementedError"}
       THEN /\ pc' = "wait_on_delete_thread"
            /\ ret' = <<"crashed">>
            /\ ev' = Ev(exc, 0, "")
            /\ exc' = exc
       ELSE /\ pc' = "all_loop"
            /\ ret' = <<>>
            /\ ev' = Ev("fatal_warning", 0, "")
            /\ exc' = ""
    /\ UNCHANGED <<isAlive, signal, hostname, args, run_coll, fs, clock, threads, override,
                   run_coll0, fs0, peer>>

\* ------------------------------------------------------------ initial states

\* The location entries a run document may start with, in the order the
\* pipeline registers them; hn is the host ajax runs on.
Universe(n, hn) ==
    << Ddoc("live", DAQ, ceph_location),
       Ddoc("raw_records", DAQ, ceph_location),
       Ddoc("raw_records", hn, OutPath(hn, n, "raw_records")),
       Ddoc("raw_records", Other(hn), OutPath(Other(hn), n, "raw_records")),
       Ddoc("event_info", hn, OutPath(hn, n, "event_info")),
       Ddoc("raw_records_nv", hn, OutPath(hn, n, "raw_records_nv")),
       Ddoc("peaklets", hn, Folder(pre_folder, hn, n, "peaklets", current_hash)),
       Ddoc("event_info", hn, Folder(output_folder, hn, n, "event_info", "old")),
       Ddoc("event_info", Other(hn), OutPath(Other(hn), n, "event_info")) >>

RECURSIVE Pick(_, _, _)
Pick(U, I, k) ==
    IF k > Len(U) THEN <<>>
    ELSE (IF k \in I THEN <<U[k]>> ELSE <<>>) \o Pick(U, I, k + 1)

\* at most one entry on the shared tier and one of event_info, at most maxE
\* entries, at least one
Choices(idx, maxE) ==
    { J \in SUBSET idx : /\ J # {}
                         /\ Cardinality(J) <= maxE
                         /\ ~({1, 2} \subseteq J)
                         /\ ~({5, 8} \subseteq J) }

DataChoices(n, hn, idx, maxE) ==
    { Pick(Universe(n, hn), I, 1) : I \in Choices(idx, maxE) }

Metas ==
    { [state |-> "done", status |-> "transferred", start_old |-> TRUE, bt_old |-> TRUE,
       bhost |-> h] : h \in Hosts }
    \cup { [state |-> "abandoned", status |-> "", start_old |-> TRUE, bt_old |-> TRUE,
            bhost |-> "eb0"],
           [state |-> "done", status |-> "transferred", start_old |-> FALSE,
            bt_old |-> FALSE, bhost |-> "eb0"] }

RunDoc(n, meta, data) ==
    [number |-> n, state |-> meta.state, status |-> meta.status,
     start_old |-> meta.start_old, bt_old |-> meta.bt_old, bhost |-> meta.bhost,
     data |-> data, deleted_data |-> <<>>]

\* the folders of a runs database whose entries are all on disk: the folder of
\* every entry of this host, ceph_location and the live folder of every run
\* with an entry on the shared tier
Registered(coll, hn) ==
    UNION { { IF dd.host = DAQ THEN JoinRunId(dd.location, n) ELSE dd.location :
                dd \in { coll[n].data[k] : k \in { j \in DOMAIN coll[n].data :
                                                     coll[n].data[j].host \in {DAQ, hn} } } }
            : n \in DOMAIN coll }

\* the folders ajax may look at: the registered ones and their _temp folders
Candidates(coll, hn) ==
    Registered(coll, hn)
    \cup { TempOf(p) : p \in { q \in Registered(coll, hn) : q[1] = "output" } }
    \cup {ceph_location}

\* the disks: the registered folders and ceph_location, but for at most dev
\* folders that are missing or that are there without being registered
Disks(coll, hn, dev) ==
    LET good == Registered(coll, hn) \cup {ceph_location}
    IN  { (good \ X) \cup (X \ good) :
            X \in { Y \in SUBSET Candidates(coll, hn) : Cardinality(Y) <= dev } }

Flags == [delete_live : BOOLEAN, force : BOOLEAN, production : BOOLEAN,
          ask_confirm : BOOLEAN]

MkArgs(number, clean, f) ==
    [number |-> number, clean |-> clean, delete_live |-> f.delete_live,
     force |-> f.force, production |-> f.production, ask_confirm |-> f.ask_confirm]

\* the command lines: --number with a run number, or --clean with a mode
NumberArgs == { MkArgs(1, "", f) : f \in Flags }
\* the command lines the checks of __main__ turn down
Rejected(a) ==
    \/ a.delete_live /\ a.number = 0
    \/ a.force /\ ~a.ask_confirm
    \/ a.force /\ a.clean # "abandoned" /\ a.number = 0

World(coll, disk) == [coll |-> coll, fs |-> disk]

Worlds(colls, hn, dev) ==
    UNION { { World(coll, disk) : disk \in Disks(coll, hn, dev) } : coll \in colls }

\* one registered run, with at most MaxEntries of the entries idx
OneRun(hn, metas, idx) ==
    { (1 :> RunDoc(1, meta, data)) :
        meta \in metas, data \in DataChoices(1, hn, idx, MaxEntries) }

\* MaxRuns registered runs, each with at most perRun of the entries idx
AllRuns(hn, metas, idx, perRun) ==
    { [n \in RunNumbers |-> RunDoc(n, f[n].meta, Pick(Universe(n, hn), f[n].I, 1))] :
        f \in [RunNumbers -> [meta : metas, I : Choices(idx, perRun)]] }

InitWith(H, A, Ws) ==
    /\ isAlive \in BOOLEAN
    /\ signal = ""
    /\ hostname \in H
    /\ args \in A
    /\ \E w \in Ws[hostname, args] :
         /\ run_coll = w.coll
         /\ fs = w.fs
    /\ run_coll0 = run_coll
    /\ fs0 = fs
    /\ peer = NoPeer
    /\ clock = 0
    /\ threads = <<>>
    /\ pc = "startup"
    /\ ret = <<>>
    /\ m = NoM
    /\ r = NoR
    /\ d = NoDd
    /\ exc = ""
    /\ ev = NoEv
    /\ override = FALSE

DeletionThreads ==
    \/ \E k \in 1 .. MaxThreads : ThreadCheck(k)
    \/ \E k \in 1 .. MaxThreads : ThreadUpdate(k)

\* ---- ajax --number 1: one run, any of its entries, any flags
DoneOld == { x \in Metas : x.state = "done" /\ x.bt_old /\ x.bhost = "eb0" }

NumberWorlds(hn, a) == Worlds(OneRun(hn, DoneOld, 1 .. 6), hn, MaxFsDev)

InitNumber == InitWith(Hosts, NumberArgs,
                       [hn \in Hosts, a \in NumberArgs |-> NumberWorlds(hn, a)])

NextNumber ==
    \/ startup
    \/ main_ajax
    \/ main_return
    \/ uncaught
    \/ main_except
    \/ interrupt
    \/ RrfhQuery
    \/ RrfhLoop
    \/ RrfhTemp
    \/ DdCheck
    \/ DdUpdate
    \/ wait_on_delete_thread
    \/ DeletionThreads

SpecNumber == InitNumber /\ [][NextNumber]_vars

\* ---- ajax --clean <mode>, one mode and its pass over the live data

CleanArgs(c) == { MkArgs(0, c, f) : f \in { g \in Flags : ~g.delete_live /\ ~g.force } }

Meta(state, old, bhost) ==
    [state |-> state, status |-> IF state = "done" THEN "transferred" ELSE "",
     start_old |-> old, bt_old |-> old, bhost |-> bhost]

\* MaxRuns runs of at most two entries each; folders are missing or
\* unregistered only under --production (a dry run leaves the disks alone)
ModeWorlds(hn, a, metas, idx) ==
    Worlds(AllRuns(hn, metas, idx, 2), hn, IF a.production THEN MaxFsDev ELSE 0)

MainOneShot ==
    \/ startup
    \/ main_ajax
    \/ main_second
    \/ main_return
    \/ uncaught
    \/ wait_on_delete_thread

CephWorlds(hn, a) ==
    IF hn = eb_can_clean_ceph
    THEN ModeWorlds(hn, a, {Meta("done", TRUE, "eb0"), Meta("done", FALSE, "eb0"),
                            Meta("abandoned", TRUE, "eb0")}, {1, 3, 4, 5})
    ELSE Worlds(AllRuns(hn, {Meta("done", TRUE, "eb0")}, {1, 3}, 2), hn, 0)

InitCeph == InitWith(Hosts, CleanArgs("ceph"),
                     [hn \in Hosts, a \in CleanArgs("ceph") |-> CephWorlds(hn, a)])

NextCeph ==
    \/ MainOneShot
    \/ clean_ceph
    \/ clean_ceph_nap
    \/ RrfhQuery
    \/ RrfhLoop
    \/ DeletionThreads

SpecCeph == InitCeph /\ [][NextCeph]_vars

\* ---- any command line, one registered run

\* folders stored in root on the disk of hn without being registered
Strays(root, hn) ==
    { Folder(root, hn, 1, "raw_records", current_hash),
      Folder(root, hn, 1, "event_info", current_hash),
      Folder(root, hn, 2, "event_info", current_hash) }

\* folders of an old lineage hash in output_folder
OldFolders(hn) ==
    { Folder(output_folder, hn, 1, "event_info", "old"),
      TempOf(Folder(output_folder, hn, 1, "event_info", "old")),
      Folder(output_folder, hn, 1, "peaklets", "old") }

\* a runs database whose entries are all on disk, with at most MaxFsDev more
\* folders out of extra
WithFolders(colls, hn, extra) ==
    UNION { { World(coll, Registered(coll, hn) \cup {ceph_location} \cup X) :
                X \in { Y \in SUBSET extra : Cardinality(Y) <= MaxFsDev } }
            : coll \in colls }

NoRuns == [n \in {} |-> NoRd]

Commands ==
    { MkArgs(1, "", f) : f \in Flags }
    \cup { MkArgs(0, c, f) : c \in Modes \cup {"all", "typo"}, f \in Flags }

CommandWorlds(hn, a) ==
    IF Rejected(a) \/ a.clean = "typo" \/ a.clean = "high_level_data"
    THEN Worlds(OneRun(hn, DoneOld, {1}), hn, 0)
    ELSE IF a.clean \in {"unregistered", "production"}
    THEN WithFolders(OneRun(hn, DoneOld, {1, 3, 5, 7}) \cup {NoRuns}, hn,
                     Strays(clean_from(a.clean), hn))
    ELSE IF a.clean = "old_hash"
    THEN WithFolders(OneRun(hn, DoneOld, {3, 5, 8}), hn, OldFolders(hn))
    ELSE Worlds({ (1 :> RunDoc(1, meta, data)) :
                    meta \in Metas, data \in DataChoices(1, hn, 1 .. 6, 2) },
                hn, MaxFsDev)

\* the loop of --clean all on an interpreter without isAlive is left to
\* SpecExit
Init ==
    /\ InitWith(Hosts, Commands, [hn \in Hosts, a \in Commands |-> CommandWorlds(hn, a)])
    /\ args.clean = "all" => isAlive

Next ==
    \/ startup
    \/ main_ajax
    \/ main_second
    \/ main_return
    \/ all_loop
    \/ caught
    \/ uncaught
    \/ wait_on_delete_thread
    \/ RrfhQuery
    \/ RrfhLoop
    \/ RrfhTemp
    \/ DdCheck
    \/ DdUpdate
    \/ DeletionThreads
    \/ clean_ceph
    \/ clean_ceph_nap
    \/ clean_abandoned
    \/ clean_abandoned_loop
    \/ clean_query
    \/ clean_loop
    \/ clean_high_level_data
    \/ clean_production
    \/ clean_unregistered
    \/ unregistered_loop
    \/ unregistered_run
    \/ clean_old_hash
    \/ old_hash_loop

Spec == Init /\ [][Next]_vars

\* ---- delete_data on its own: any run document, data type and flags, called
\* ---- up to MaxCalls times for the same location entry

\* delete_data(rd, path, data_type, test, ignore_low_data_check, reason) called
\* once more for the entry of the call that just returned, with the run
\* document of that call or with the run document read again
delete_data_again ==
    /\ pc = "dd_again"
    /\ IF m.i + 1 >= MaxCalls
       THEN /\ pc' = "finished"
            /\ UNCHANGED <<ret, m, d>>
       ELSE \E reread \in BOOLEAN :
              /\ d' = [ev.dd EXCEPT !.rd = IF reread THEN run_coll[ev.dd.rd.number] ELSE @,
                                    !.violation = FALSE]
              /\ pc' = "dd_check"
              /\ ret' = <<"dd_again">>
              /\ m' = [m EXCEPT !.i = @ + 1]
    /\ ev' = NoEv
    /\ UNCHANGED <<isAlive, signal, hostname, args, run_coll, fs, clock, threads, r, exc,
                   override, run_coll0, fs0, peer>>

DeleteDataCalls(hn) ==
    { Dd(RunDoc(1, meta, data),
         IF data_type = "live" THEN JoinRunId(ceph_location, 1)
         ELSE OutPath(hn, 1, data_type),
         data_type, test, ignore, "manual") :
        meta \in DoneOld,
        data \in DataChoices(1, hn, 1 .. 6, MaxEntries),
        data_type \in {"live", "raw_records", "raw_records_nv", "event_info"},
        test \in BOOLEAN, ignore \in BOOLEAN }

InitDeleteData ==
    /\ isAlive = TRUE
    /\ signal = ""
    /\ hostname \in Hosts
    /\ args \in { MkArgs(1, "", f) :
                    f \in { g \in Flags : ~g.delete_live /\ ~g.force } }
    /\ \E call \in DeleteDataCalls(hostname), there \in BOOLEAN :
         /\ d = call
         /\ run_coll = (1 :> call.rd)
         /\ fs = {ceph_location} \cup (IF there THEN {call.path} ELSE {})
    /\ run_coll0 = run_coll
    /\ fs0 = fs
    /\ peer = NoPeer
    /\ clock = 0
    /\ threads = <<>>
    /\ pc = "dd_check"
    /\ ret = <<"dd_again">>
    /\ m = NoM
    /\ r = NoR
    /\ exc = ""
    /\ ev = NoEv
    /\ override = d.ignore

NextDeleteData ==
    \/ DdCheck
    \/ DdUpdate
    \/ delete_data_again
    \/ uncaught

SpecDeleteData == InitDeleteData /\ [][NextDeleteData]_vars

\* ------------------------------------------------------------------ claims

CheckKinds == {"checked", "rmtree_error", "integrity_warning", "integrity_error"}

\* the live and raw_records entries of a run document, counted entry by entry
Copies(rd, t) == Cardinality({ k \in DOMAIN rd.data : rd.data[k].type = t })

\* C2: delete_data called without override passes its safety check if and
\* only if n_live >= 1 or n_raw_records >= 1 + (1 if "raw_records" is in the
\* data type, else 0), n_live and n_raw_records being the numbers of "live"
\* and "raw_records" entries of the run document; with override the check
\* is skipped and never fails.
C2_SafetyCheck ==
    ev.kind \in CheckKinds =>
        LET n_live == Copies(ev.dd.rd, "live")
            n_raw_records == Copies(ev.dd.rd, "raw_records")
            passed == ev.kind \in {"checked", "rmtree_error"}
        IN  IF ev.dd.ignore THEN passed
            ELSE passed <=> \/ n_live >= 1
                            \/ n_raw_records >= 1 + (IF InRawRecords(ev.dd.type) THEN 1 ELSE 0)

\* C2: the check turns down the deletion of a raw_records entry of a run
\* that has exactly one raw_records entry and no live entry
C2_Witness ==
    /\ ev.kind = "integrity_error"
    /\ ev.dd.type = "raw_records"
    /\ ~ev.dd.ignore
    /\ Copies(ev.dd.rd, "raw_records") = 1
    /\ Copies(ev.dd.rd, "live") = 0

\* a run document registers a live or a raw_records entry
HasCopy(rd) == HasType(rd, "live") \/ HasType(rd, "raw_records")

\* C1: in real-execution mode (--production), as long as no deletion was
\* requested with the override (force / ignore_low_data_check), every run
\* that registered a live or raw_records entry when ajax started still
\* registers one, whatever cleaning mode or --number ran.
C1_CopyKept ==
    (args.production /\ ~override) =>
        \A n \in DOMAIN run_coll0 : HasCopy(run_coll0[n]) => HasCopy(run_coll[n])

\* C3: without --production (dry run) no cleaning mode and no --number
\* removes or moves a folder or changes a run document: the disks and the
\* runs database stay as they were when ajax started.
C3_DryRunMutatesNothing ==
    ~args.production => (fs = fs0 /\ run_coll = run_coll0)

\* C3: a dry run of delete_data reached the update of the run document for
\* a folder that is not on disk (the branch that writes under --production)
C3_Witness ==
    /\ ~args.production
    /\ ev.kind = "no_update"
    /\ ~Exists(fs, ev.dd.path)
    /\ \E k \in DOMAIN ev.dd.rd.data : PullMatches(ev.dd.rd.data[k], ev.dd.type, hostname)

\* C4: every update of a run document by delete_data removes exactly one
\* location entry and appends exactly one deletion record, for that entry
\* (same type and host): never a record without a removal, a removal
\* without a record, or more than one entry removed for one record.
C4_PairedUpdate ==
    [][\A n \in DOMAIN run_coll :
         run_coll'[n] # run_coll[n] =>
           \E k \in DOMAIN run_coll[n].data :
             /\ run_coll'[n].data = RemoveAt(run_coll[n].data, k)
             /\ Len(run_coll'[n].deleted_data) = Len(run_coll[n].deleted_data) + 1
             /\ SubSeq(run_coll'[n].deleted_data, 1, Len(run_coll[n].deleted_data))
                  = run_coll[n].deleted_data
             /\ LET rec == run_coll'[n].deleted_data[Len(run_coll'[n].deleted_data)]
                IN  rec.type = run_coll[n].data[k].type
                    /\ rec.host = run_coll[n].data[k].host]_vars

\* ---- two ajax processes: ajax --clean non_latest --production on this host
\* ---- and on the other event builder, for runs processed by a third host

RaceArgs ==
    { MkArgs(0, "non_latest", f) :
        f \in { g \in Flags : g.production /\ ~g.delete_live /\ ~g.force } }

\* raw_records and event_info on both event builders
RaceWorlds(hn) ==
    { World(coll, Registered(coll, hn) \cup Registered(coll, Other(hn))
                  \cup {ceph_location}) :
        coll \in AllRuns(hn, {Meta("done", TRUE, "eb2")}, {3, 4, 5, 9}, MaxEntries) }

InitRace ==
    /\ isAlive = TRUE
    /\ signal = ""
    /\ hostname \in Hosts
    /\ args \in RaceArgs
    /\ \E w \in RaceWorlds(hostname) :
         /\ run_coll = w.coll
         /\ fs = w.fs
    /\ run_coll0 = run_coll
    /\ fs0 = fs
    /\ peer = [NoPeer EXCEPT !.pc = "clean_non_latest"]
    /\ clock = 0
    /\ threads = <<>>
    /\ pc = "startup"
    /\ ret = <<>>
    /\ m = NoM
    /\ r = NoR
    /\ d = NoDd
    /\ exc = ""
    /\ ev = NoEv
    /\ override = FALSE

NextRace ==
    \/ MainOneShot
    \/ clean_query
    \/ clean_loop
    \/ DdCheck
    \/ DdUpdate
    \/ peer_query
    \/ peer_loop
    \/ peer_check
    \/ peer_update

SpecRace == InitRace /\ [][NextRace]_vars

\* C5: with two ajax processes deleting entries of the same run, each from
\* its own earlier read of the run document, no interleaving of their checks
\* and updates leaves a run that registered a live or raw_records entry
\* without any (no override is used by either process).
C5_NoRaceLoss ==
    ~override =>
        \A n \in DOMAIN run_coll0 : HasCopy(run_coll0[n]) => HasCopy(run_coll[n])

\* a done and transferred run whose only location entry is raw_records on
\* host hn (no entry on the shared tier)
OnlyRawHere(rd, hn) ==
    /\ rd.state = "done"
    /\ rd.status = "transferred"
    /\ Len(rd.data) = 1
    /\ rd.data[1].type = "raw_records"
    /\ rd.data[1].host = hn

\* the last step handled a request without override to delete the raw_records
\* entry of such a run: remove_run_from_host came to the entry, or delete_data
\* ran its check for it
RawDeletionRequested ==
    /\ ev.run \in DOMAIN run_coll0
    /\ OnlyRawHere(run_coll0[ev.run], hostname)
    /\ ev.type = "raw_records"
    /\ \/ ev.kind = "prevent_raw_records"
       \/ ev.kind \in CheckKinds /\ ~ev.dd.ignore

\* C6 as stated: for a done and transferred run whose only entry is a
\* raw_records entry on this host, a request without override to delete that
\* entry is rejected with an integrity error, and the entry stays.
C6_RejectedWithError ==
    RawDeletionRequested =>
        /\ ev.kind = "integrity_error"
        /\ run_coll[ev.run].data = run_coll0[ev.run].data

\* C6 amended: the entry always stays; remove_run_from_host skips it with a
\* log line and no error, and delete_data raises the integrity error only
\* when test is False (--production), logging a warning in a dry run.
C6_EntryStays ==
    /\ \A n \in DOMAIN run_coll0 :
         (OnlyRawHere(run_coll0[n], hostname) /\ ~override) =>
             run_coll[n].data = run_coll0[n].data
    /\ RawDeletionRequested =>
         \/ ev.kind = "prevent_raw_records"
         \/ ev.kind = "integrity_error" /\ ~ev.dd.test
         \/ ev.kind = "integrity_warning" /\ ev.dd.test

\* C6: remove_run_from_host came to the only raw_records entry of a run and
\* skipped it
C6_Witness ==
    /\ RawDeletionRequested
    /\ ev.kind = "prevent_raw_records"
    /\ run_coll[ev.run].data = run_coll0[ev.run].data

\* the host-local and the shared-tier raw_records entries
IsHostRaw(e, hn) == e.type = "raw_records" /\ e.host = hn
IsSharedRaw(e) == e.type = "raw_records" /\ e.host = DAQ

\* C7: for a run with a raw_records entry on this host and a raw_records
\* entry on the shared tier, deleting the host-local entry with --production
\* and without override is allowed, and the update leaves every other entry
\* (the shared-tier one included) in data and appends exactly one deletion
\* record, with the reason that was passed.
C7_SharedTierEntryKept ==
    LET dd == ev.dd
        case == /\ dd.type = "raw_records"
                /\ ~dd.ignore /\ ~dd.test /\ args.production
                /\ dd.rd = run_coll0[dd.rd.number]
                /\ \E k \in DOMAIN dd.rd.data :
                     IsHostRaw(dd.rd.data[k], hostname) /\ dd.rd.data[k].location = dd.path
                /\ \E k \in DOMAIN dd.rd.data : IsSharedRaw(dd.rd.data[k])
    IN  /\ (ev.kind \in CheckKinds /\ case) => ev.kind \in {"checked", "rmtree_error"}
        /\ (ev.kind = "updated" /\ case /\ clock = 1) =>
             LET rd == run_coll[ev.run]
             IN  /\ rd.data = SelectSeq(dd.rd.data, LAMBDA e : ~IsHostRaw(e, hostname))
                 /\ Len(rd.deleted_data) = 1
                 /\ rd.deleted_data[1].reason = dd.reason

\* delete_data is running in the control thread for a location entry that
\* the run document registered once when ajax started, whose folder was
\* absent then, with --production and test = False, no confirmation asked,
\* and a safety check that passes for that run document with and without
\* the entry
AbsentEntryCall ==
    /\ pc \in {"dd_check", "dd_update"}
    /\ args.production /\ ~args.ask_confirm /\ ~d.test
    /\ d.path \notin fs0
    /\ d.rd.number \in DOMAIN run_coll0
    /\ LET rd0 == run_coll0[d.rd.number]
       IN  /\ Cardinality({ k \in DOMAIN rd0.data :
                              PullMatches(rd0.data[k], d.type, hostname) }) = 1
           /\ SafetyCheckOk(rd0, d.type)
           /\ SafetyCheckOk([rd0 EXCEPT !.data = Pull(@, d.type, hostname)], d.type)

\* C8: with --production, delete_data for a location entry whose folder is
\* already absent raises no error and updates the run document exactly once
\* (one entry removed, one deletion record appended); a second call for the
\* same entry, with the same or a re-read run document, raises no error and
\* appends no further deletion record.
C8_AbsentPathIdempotent ==
    [][AbsentEntryCall =>
         LET n == d.rd.number
         IN  /\ pc' # "raise"
             /\ (pc = "dd_update" /\ m.i = 0) =>
                  /\ Len(run_coll'[n].data) = Len(run_coll[n].data) - 1
                  /\ Len(run_coll'[n].deleted_data) = Len(run_coll[n].deleted_data) + 1
             /\ m.i >= 1 => run_coll'[n].deleted_data = run_coll[n].deleted_data]_vars

\* the runs clean_ceph's query matched when ajax started
CephMatches0 == Len(find(run_coll0, [rd \in Docs(run_coll0) |-> CephQuery(rd)]))

\* C9: on eb_can_clean_ceph with --production, clean_ceph calls
\* remove_run_from_host once per run that matched its query (m.depth counts
\* the calls that returned), never runs out of recursion depth, and when
\* ajax --clean ceph has finished no run matches the query any more.
C9_CephTerminates ==
    (hostname = eb_can_clean_ceph /\ args.production /\ args.clean = "ceph") =>
        /\ m.name = "ceph" => m.depth <= CephMatches0
        /\ ~(pc = "raise" /\ exc = "RecursionError")
        /\ pc = "finished" => find(run_coll, [rd \in Docs(run_coll) |-> CephQuery(rd)]) = <<>>

\* ---- ajax --clean all: the loop over clean_ceph, clean_abandoned (with the
\* ---- pass over the live data on eb_can_clean_ceph) and clean_non_latest

AllArgs == CleanArgs("all")

AllWorlds(hn, a) ==
    ModeWorlds(hn, a, {Meta("done", TRUE, "eb1"), Meta("abandoned", TRUE, "eb0")},
               {1, 3, 5})

InitAll ==
    /\ InitWith(Hosts, AllArgs, [hn \in Hosts, a \in AllArgs |-> AllWorlds(hn, a)])
    /\ isAlive

NextAll ==
    \/ startup
    \/ main_ajax
    \/ main_return
    \/ all_loop
    \/ caught
    \/ wait_on_delete_thread
    \/ clean_ceph
    \/ clean_ceph_nap
    \/ clean_abandoned
    \/ clean_abandoned_loop
    \/ clean_query
    \/ clean_loop
    \/ RrfhQuery
    \/ RrfhLoop
    \/ RrfhTemp
    \/ DdCheck
    \/ DdUpdate
    \/ DeletionThreads

SpecAll == InitAll /\ [][NextAll]_vars

\* C10: in every reachable state, with and without --production, at most
\* i_max deletion threads started by threaded_delete_data are alive at the
\* same time: 5, or 1 under --ask_confirm.
C10_ThreadsBounded == Len(threads) <= i_max(args)

\* ---- leaving the process: the deletion threads at exit

\* C11: whenever the ajax process has exited (after main_ajax returned, after
\* an interrupt, or with an uncaught error of --number or of a one-shot
\* mode), no deletion thread that was started is still alive.
C11_ThreadsJoined == pc \in {"finished", "crashed"} => threads = <<>>

\* ---- ajax --clean all or --number, interrupted: one registered run whose
\* ---- folders are all on disk, either interpreter

ExitArgs == AllArgs \cup { MkArgs(1, "", f) : f \in { g \in Flags : ~g.force } }

ExitWorlds(hn, a) ==
    Worlds(OneRun(hn, {Meta("done", TRUE, "eb1"), Meta("abandoned", TRUE, "eb0")},
                  {1, 3}), hn, 0)

InitExit == InitWith(Hosts, ExitArgs, [hn \in Hosts, a \in ExitArgs |-> ExitWorlds(hn, a)])

NextExit ==
    \/ NextAll
    \/ uncaught
    \/ main_except
    \/ interrupt

SpecExit == InitExit /\ [][NextExit]_vars

\* C12: once a KeyboardInterrupt or SystemExit has arrived during main_ajax
\* and the process has exited, no deletion thread is alive: the wait for the
\* threads came to its end before the exit.
C12_InterruptWaits == (signal # "" /\ pc = "crashed") => threads = <<>>

\* the control thread goes on running: the except clause of the loop and the
\* top of the loop are passed once they are reached
SpecExitFair == SpecExit /\ WF_vars(caught) /\ WF_vars(all_loop)

\* an exception other than an interrupt is on its way out of a mode of the
\* loop of --clean all
RaisedInLoop == pc = "raise" /\ InLoop /\ exc \notin Signals

\* the first mode of the sequence has been entered
SequenceStarted ==
    /\ m.name = IF hostname = eb_can_clean_ceph THEN "ceph" ELSE "abandoned"
    /\ pc = ModePc(m.name)

\* C13: in the loop of --clean all an error other than an interrupt does not
\* end the process: the next step of the control thread reports it (fatal
\* warning) and is back at the top of the loop, and unless an interrupt
\* arrives the first mode of the sequence is entered again.
C13_LoopRestarts ==
    /\ [][(RaisedInLoop /\ pc' # pc) =>
            (pc' = "all_loop" /\ ev'.kind = "fatal_warning")]_vars
    /\ RaisedInLoop ~> (SequenceStarted \/ signal # "")

\* C13 witness: the loop is at its top again after an error was reported
C13_Witness == pc = "all_loop" /\ ev.kind = "fatal_warning" /\ signal = ""

\* ---- the shared tier and the entries of other hosts

\* the entries of host h that run document rd registers
EntriesOf(rd, h) == { rd.data[k] : k \in { j \in DOMAIN rd.data : rd.data[j].host = h } }

\* C14: on a host other than eb_can_clean_ceph no folder below ceph_location
\* is removed and no location entry of host "daq" leaves a run document,
\* whatever the command line.
C14_SharedTierUntouched ==
    hostname # eb_can_clean_ceph =>
        /\ \A p \in fs0 : IsPrefix(ceph_location, p) => p \in fs
        /\ \A n \in DOMAIN run_coll0 :
             EntriesOf(run_coll0[n], DAQ) \subseteq EntriesOf(run_coll[n], DAQ)

\* the location entries that have left run document n since ajax started
Removed(n) ==
    { e \in { run_coll0[n].data[k] : k \in DOMAIN run_coll0[n].data } :
        \A j \in DOMAIN run_coll[n].data : run_coll[n].data[j] # e }

\* C15: every location entry the process on hostname has removed from a run
\* document is an entry of hostname, or an entry of "daq" when hostname is
\* eb_can_clean_ceph.
C15_OwnEntriesOnly ==
    \A n \in DOMAIN run_coll0 : \A e \in Removed(n) :
        \/ e.host = hostname
        \/ e.host = DAQ /\ hostname = eb_can_clean_ceph

\* the folder a location entry of run n stands for
PathOf(e, n) == IF e.host = DAQ THEN JoinRunId(e.location, n) ELSE e.location

\* C16: under --production a location entry has left its run document only
\* if its folder is not on disk: no entry is removed while the folder it
\* stands for is still there (rmtree failed, or the confirmation was declined).
C16_RemovedOnlyIfAbsent ==
    args.production =>
        \A n \in DOMAIN run_coll0 : \A e \in Removed(n) : ~Exists(fs, PathOf(e, n))

\* ---- a failed safety check

UpdateKinds == {"updated", "no_update", "not_deleted_error"}

\* C17: a step of delete_data that finds the safety check failed (no
\* override) changes neither the disks nor the runs database.  Under
\* --production (test = False) it ends the call with the integrity error;
\* in a dry run (test = True) it only reports the violation, the call goes
\* on to its second half, and that half ends without raising and without
\* an update.
C17_FailedCheck ==
    [][/\ ev'.kind = "integrity_error" =>
             /\ ~ev'.dd.test /\ args.production
             /\ fs' = fs /\ run_coll' = run_coll
             /\ ev'.who = "main" => pc' = "raise" /\ exc' = "ValueError"
       /\ ev'.kind = "integrity_warning" =>
             /\ ev'.dd.test /\ ~args.production
             /\ fs' = fs /\ run_coll' = run_coll
             /\ ev'.who = "main" => pc' = "dd_update" /\ exc' = exc
       /\ (ev'.kind \in UpdateKinds /\ ev'.dd.violation) =>
             /\ ev'.kind = "no_update"
             /\ fs' = fs /\ run_coll' = run_coll
             /\ ev'.who = "main" => pc' # "raise"
       /\ (ev'.kind \in CheckKinds /\ ~ev'.dd.ignore
           /\ ~SafetyCheckOk(ev'.dd.rd, ev'.dd.type)) =>
             ev'.kind \in {"integrity_error", "integrity_warning"}]_vars

\* C17 witness: a dry run has reported a failed check and the call has come
\* to its end
C17_Witness == ev.kind = "no_update" /\ ev.dd.violation /\ ~args.production

\* ---- the command lines __main__ turns down

\* C18: with --force and without --ask_confirm ajax never gets past the
\* checks of __main__: main_ajax is not entered, no thread is started, the
\* disks and the runs database stay as they were, and once the checks have
\* run the process has been turned down with an error.
C18_ForceNeedsConfirm ==
    (args.force /\ ~args.ask_confirm) =>
        /\ pc \in {"startup", "rejected"}
        /\ pc = "rejected" => ev.kind \in {"NotImplementedError", "ValueError"}
        /\ fs = fs0 /\ run_coll = run_coll0 /\ threads = <<>> /\ clock = 0

\* C18 witness: --force without --ask_confirm has been turned down
C18_Witness ==
    /\ args.force /\ ~args.ask_confirm
    /\ pc = "rejected" /\ ev.kind = "NotImplementedError"

\* C19: with a --clean value that is no key of the mode table and not "all",
\* ajax calls no cleaning mode and no remove_run_from_host, touches neither
\* the runs database nor the disks, and ends with the ValueError of main_ajax
\* (or is turned down by the checks of __main__).
C19_UnknownMode ==
    (args.number = 0 /\ args.clean \notin Modes \cup {"all"}) =>
        /\ pc \in {"startup", "rejected", "main_ajax", "raise", "crashed"}
        /\ m = NoM /\ r = NoR /\ d = NoDd /\ threads = <<>>
        /\ fs = fs0 /\ run_coll = run_coll0 /\ clock = 0
        /\ pc \in {"raise", "crashed"} => exc = "ValueError"

\* C19 witness: an unknown mode has ended ajax with the ValueError
C19_Witness ==
    /\ args.number = 0 /\ args.clean \notin Modes \cup {"all"}
    /\ pc = "crashed" /\ ev.kind = "ValueError"

\* ---- ajax --clean non_latest / database, one pass over MaxRuns runs that
\* ---- have raw_records and event_info on this host or on the other one

BatchArgs == CleanArgs("non_latest") \cup CleanArgs("database")

BatchWorlds(hn, a) ==
    ModeWorlds(hn, a, {Meta("done", TRUE, "eb0"), Meta("done", TRUE, "eb1")}, {3, 4, 5})

InitBatch ==
    /\ InitWith(Hosts, BatchArgs, [hn \in Hosts, a \in BatchArgs |-> BatchWorlds(hn, a)])
    /\ isAlive

NextBatch ==
    \/ MainOneShot
    \/ clean_query
    \/ clean_loop
    \/ DdCheck
    \/ DdUpdate

SpecBatch == InitBatch /\ [][NextBatch]_vars

\* a run document the pass in progress has not looked at yet and would
\* handle: for clean_non_latest, one with raw_records on another host
Remaining(j) ==
    /\ j \in (m.k + 1) .. Len(m.rds)
    /\ m.name = "non_latest" => RawRecordsElsewhere(m.rds[j], hostname)

\* C20: a pass of clean_non_latest or clean_database never ends (by return
\* or by an exception) while a run document of its query result that it
\* would handle has not been looked at.
C20_BatchContinues ==
    [][(m.name \in {"non_latest", "database"} /\ m'.name = "") =>
          ~\E j \in DOMAIN m.rds : Remaining(j)]_vars

\* ---- folders of runs the runs database does not know

\* the run clean_unregistered is looking at has no run document at all
NoRunDocument ==
    /\ m.name \in {"unregistered", "production"}
    /\ m.k \in DOMAIN m.rds
    /\ m.rds[m.k] \notin DOMAIN run_coll

\* C21: for a folder of a run without any run document, the deep check of
\* clean_unregistered (_remove_unregistered_run) ends in one of two ways
\* only: the folder is moved or turned down with the integrity error
\* (ValueError) after a fresh lookup of the run document, or
\* FileNotFoundError is raised because no folder of the run was found; no
\* other error leaves it.
C21_DeepCheckOutcomes ==
    (NoRunDocument /\ pc = "raise") => exc \in {"ValueError", "FileNotFoundError"}

\* ---- the alert sink: databases.log_warning fails

\* the next step of the control thread calls log_warning: no registered data
\* (line 605), unsafe to delete the live data (659), the failed check of
\* delete_data (535), a run that is stored but not registered (705)
LogWarningDue ==
    \/ /\ pc = "rrfh_query"
       /\ find(run_coll,
               [rd \in Docs(run_coll) |-> rd.number = r.number
                           /\ HasHost(rd, IF r.delete_live THEN DAQ ELSE hostname)]) = <<>>
    \/ /\ pc = "rrfh_loop"
       /\ r.di \in DOMAIN r.rd.data
       /\ r.rd.data[r.di].host = DAQ
       /\ r.delete_live /\ ~r.force
       /\ check_rundoc_for_live_and_raw(r.rd).n_raw_records = 0
    \/ /\ pc = "dd_check"
       /\ ~d.ignore /\ ~SafetyCheckOk(d.rd, d.type)
    \/ /\ pc = "unregistered_loop"
       /\ m.k \in DOMAIN m.rds
       /\ LET found == find(run_coll,
                            [rd \in Docs(run_coll) |-> rd.number = m.rds[m.k]
                                        /\ HasHost(rd, IF m.delete_live THEN DAQ
                                                       ELSE hostname)])
          IN  ~(/\ found # <<>>
                /\ \E k \in DOMAIN found[1].data :
                     StartsWith(found[1].data[k].location, clean_from(m.name)))

\* log_warning, lines 829-837, when databases.log_warning raises: nothing
\* around the call catches the exception, so it leaves the function that
\* reported
log_warning_raises ==
    /\ LogWarningDue
    /\ Raise("PyMongoError")
    /\ ev' = Ev("log_warning_failed", 0, "")
    /\ UNCHANGED <<isAlive, signal, hostname, args, run_coll, fs, clock, threads, m, r, d,
                   override, run_coll0, fs0, peer>>

\* ---- ajax --number 1 with an alert sink that may fail

NextSink ==
    \/ startup
    \/ main_ajax
    \/ main_return
    \/ uncaught
    \/ RrfhQuery
    \/ RrfhLoop
    \/ RrfhTemp
    \/ DdCheck
    \/ DdUpdate
    \/ wait_on_delete_thread
    \/ DeletionThreads
    \/ log_warning_raises

SpecSink == InitNumber /\ [][NextSink]_vars

\* C22: a failure of the alert sink is never fatal and does not change what
\* the reporting operation does: the step that reports goes on as it does
\* when the report succeeds (no exception is raised into the operation), and
\* the process never ends with the error of the sink.
C22_SinkFailureNotFatal ==
    /\ [][ev'.kind = "log_warning_failed" => pc' # "raise"]_vars
    /\ [](exc = "PyMongoError" => pc # "crashed")

\* ---- --ask_confirm

\* C23: under --ask_confirm a step removes a folder, updates a run document
\* or moves an unregistered folder only when the prompt of that step was
\* answered "y"; a step whose prompt was answered "n" or with anything else
\* changes neither the disks nor the runs database.
C23_ConfirmedOnly ==
    [][args.ask_confirm =>
         /\ (fs' # fs \/ run_coll' # run_coll) => ev'.answer = "y"
         /\ ev'.answer \in {"n", "other"} => (fs' = fs /\ run_coll' = run_coll)]_vars

\* C23 witness: under --ask_confirm a run document has been updated after
\* the prompt was answered "y"
C23_Witness == args.ask_confirm /\ ev.kind = "updated" /\ ev.answer = "y"

\* ---- what ajax writes to a run document

\* s is t with some of its elements left out
RECURSIVE IsSubsequence(_, _)
IsSubsequence(s, t) ==
    IF s = <<>> THEN TRUE
    ELSE IF t = <<>> THEN FALSE
    ELSE IF Head(s) = Head(t) THEN IsSubsequence(Tail(s), Tail(t))
    ELSE IsSubsequence(s, Tail(t))

\* s is the beginning of t
IsHistoryOf(s, t) == Len(s) <= Len(t) /\ SubSeq(t, 1, Len(s)) = s

\* C24: no step of ajax creates or deletes a run document, changes its
\* number, bootstrax state, status or timestamps, or adds a location entry;
\* a step only removes entries from data and appends records to
\* deleted_data, leaving the records that are there as they are.
C24_OnlyRemoveAndAppend ==
    [][/\ DOMAIN run_coll' = DOMAIN run_coll
       /\ \A n \in DOMAIN run_coll :
            /\ [run_coll'[n] EXCEPT !.data = <<>>, !.deleted_data = <<>>]
                 = [run_coll[n] EXCEPT !.data = <<>>, !.deleted_data = <<>>]
            /\ IsSubsequence(run_coll'[n].data, run_coll[n].data)
            /\ IsHistoryOf(run_coll[n].deleted_data, run_coll'[n].deleted_data)]_vars

\* C24 witness: a run document has lost two location entries and holds the
\* two deletion records, the rest of it being as it was when ajax started
C24_Witness ==
    \E n \in DOMAIN run_coll :
        /\ Len(run_coll[n].deleted_data) = 2
        /\ Len(run_coll[n].data) = Len(run_coll0[n].data) - 2

\* ---- the sequence of the loop of --clean all

\* a step of the control thread enters cleaning mode name
Entered(name, delete_live) ==
    m.name = "" /\ m'.name = name /\ m'.delete_live = delete_live /\ pc' = ModePc(name)

\* a step of the control thread that returns from cleaning mode name (not
\* one that leaves it with an exception) returns to label
ReturnedTo(name, delete_live, label) ==
    (m.name = name /\ m.delete_live = delete_live /\ m'.name = "" /\ pc # "raise")
        => pc' = label

InRecursiveMode == m.name \in {"ceph", "abandoned"}

\* C26 as stated: in a dry run clean_ceph and clean_abandoned hand only the
\* first match of their query to remove_run_from_host and return without
\* calling themselves again.
C26_FirstMatchOnly ==
    (~args.production /\ InRecursiveMode) => (m.i <= 1 /\ m.depth = 0)

\* C26 amended: in a dry run clean_ceph and clean_abandoned() handle the
\* first match only and clean_abandoned(delete_live=True) at most i_max
\* matches (5, or 1 under --ask_confirm), and none of them calls itself
\* again; under --production a call that handled a match calls itself
\* again, clean_abandoned(delete_live=True) after its batch of at most i_max.
C26_DryRunOnePass ==
    /\ [](InRecursiveMode =>
            /\ ~args.production => m.depth = 0
            /\ m.name = "abandoned" => m.i <= i_max(args)
            /\ (m.name = "abandoned" /\ ~m.delete_live) => m.i <= 1
            /\ m.name = "ceph" => m.i <= m.depth + 1)
    /\ [][(InRecursiveMode /\ pc' # pc /\ pc' # "raise") =>
            /\ pc = "clean_ceph_nap" =>
                 IF args.production
                 THEN m'.name = "ceph" /\ m'.depth = m.depth + 1
                 ELSE m'.name = ""
            /\ (pc = "clean_abandoned_loop" /\ pc' # "rrfh_query") =>
                 IF args.production /\ m.i > 0
                 THEN m'.name = "abandoned" /\ m'.depth = m.depth + 1
                 ELSE m'.name = ""]_vars

\* C26 witness: a dry run of clean_abandoned(delete_live=True) has handed two
\* runs to remove_run_from_host and is about to return
C26_Witness ==
    /\ ~args.production
    /\ m.name = "abandoned" /\ m.delete_live
    /\ pc = "clean_abandoned_loop" /\ m.i = 2 /\ m.k > Len(m.rds)

\* ---- the recursion of clean_abandoned under --production

\* a run matches one of the queries of clean_abandoned on this host
AbandonedLeft ==
    \E n \in DOMAIN run_coll :
        \/ AbandonedQuery(run_coll[n], hostname)
        \/ hostname = eb_can_clean_ceph /\ AbandonedLiveQuery(run_coll[n])

\* C27: under --production clean_abandoned terminates: its recursion never
\* runs out of depth, also when a deletion is not carried out (confirmation
\* declined, a deletion thread that failed, an entry left in place), and
\* once ajax --clean abandoned has finished no run matches its query.
C27_AbandonedTerminates ==
    (args.production /\ args.clean = "abandoned") =>
        /\ ~(pc = "raise" /\ exc = "RecursionError")
        /\ pc = "finished" => ~AbandonedLeft

\* ---- clean_non_latest

\* run document rd is selected by clean_non_latest and registers raw_records
\* on another host
NonLatestQualifies(rd) ==
    NonLatestQuery(rd, hostname) /\ RawRecordsElsewhere(rd, hostname)

\* C28: clean_non_latest removes an entry of this host only for a run whose
\* run document registers raw_records on another host, and one pass under
\* --production (no confirmation asked) removes every entry of this host of
\* every selected run that does, wherever the runs that do not are in the
\* result of the query.
C28_NonLatestPass ==
    args.clean = "non_latest" =>
        /\ \A n \in DOMAIN run_coll0 :
             Removed(n) # {} => RawRecordsElsewhere(run_coll0[n], hostname)
        /\ (pc = "finished" /\ args.production /\ ~args.ask_confirm) =>
             \A n \in DOMAIN run_coll0 :
                 NonLatestQualifies(run_coll0[n]) => ~HasHost(run_coll[n], hostname)

\* ---- a deletion thread that never finishes

\* shutil.rmtree of a deletion thread does not return (the storage hangs):
\* the thread stays alive and takes no further step
ThreadHangs(k) ==
    /\ Running
    /\ k \in DOMAIN threads
    /\ threads[k].at = "check"
    /\ ~threads[k].dd.test
    /\ Exists(fs, threads[k].dd.path)
    /\ threads' = [threads EXCEPT ![k].at = "hung"]
    /\ ev' = EvDd("hanging", "thread", threads[k].dd)
    /\ UNCHANGED <<isAlive, signal, hostname, args, run_coll, fs, clock, pc, ret, m, r, d,
                   exc, override, run_coll0, fs0, peer>>

\* ---- ajax --number 1 with deletion threads that may hang

NextHang ==
    \/ startup
    \/ main_ajax
    \/ main_return
    \/ uncaught
    \/ RrfhQuery
    \/ RrfhLoop
    \/ RrfhTemp
    \/ DdCheck
    \/ DdUpdate
    \/ wait_on_delete_thread
    \/ DeletionThreads
    \/ \E k \in 1 .. MaxThreads : ThreadHangs(k)

SpecHang == InitNumber /\ [][NextHang]_vars

\* wait_on_delete_thread comes to its end
WaitReturns == wait_on_delete_thread /\ pc' # "raise"

\* every deletion thread that is alive hangs
OnlyHangingThreads ==
    threads # <<>> /\ \A k \in DOMAIN threads : threads[k].at = "hung"

\* C29: a deletion thread that never finishes does not block the control
\* thread for ever: when the only threads alive are hanging ones,
\* wait_on_delete_thread can give them up and return, so that the control
\* flow goes on.
C29_HangingThreadAbandoned ==
    (pc = "wait_on_delete_thread" /\ OnlyHangingThreads) => ENABLED WaitReturns

\* ---- which thread runs delete_data

\* the call of delete_data is about a location entry held by the shared
\* storage ("daq") of its run document
SharedTarget(dd) ==
    \E i \in DOMAIN dd.rd.data :
        LET e == dd.rd.data[i]
        IN  /\ e.host = DAQ
            /\ e.type = dd.type
            /\ dd.path \in {e.location, JoinRunId(e.location, dd.rd.number)}

\* the call of delete_data is about a location entry of this host
OwnTarget(dd) ==
    \E i \in DOMAIN dd.rd.data :
        LET e == dd.rd.data[i]
        IN  /\ e.host = hostname
            /\ e.type = dd.type
            /\ dd.path \in {e.location, TempOf(e.location)}

\* C30: delete_data for an entry of the shared storage runs in a deletion
\* thread, never in the control thread, in every mode; delete_data for an
\* entry of this host runs in the control thread.
C30_SharedOnWorker ==
    [][ev'.kind \in CheckKinds =>
          /\ SharedTarget(ev'.dd) => ev'.who = "thread"
          /\ OwnTarget(ev'.dd) => ev'.who = "main"]_vars

\* ---- clean_database

\* a location entry clean_database is to take out of the runs database: an
\* entry of this host, or of "daq" on the host that cleans ceph (the pass
\* with delete_live), whose location is not on disk
StaleEntry(e) ==
    /\ e.host = hostname \/ (e.host = DAQ /\ hostname = eb_can_clean_ceph)
    /\ ~Exists(fs, e.location)

\* C31: ajax --clean database removes from the run documents only location
\* entries of this host (of "daq" in the pass with delete_live) whose
\* location is not on disk, never an entry whose location exists; a pass
\* under --production that comes to its end has removed every such entry of
\* every done run it selected.
C31_StaleEntriesOnly ==
    args.clean = "database" =>
        /\ \A n \in DOMAIN run_coll0 : \A e \in Removed(n) : StaleEntry(e)
        /\ (args.production /\ ~args.ask_confirm /\ pc = "finished") =>
              \A n \in DOMAIN run_coll0 :
                  (run_coll0[n].state = "done" /\ run_coll0[n].bt_old) =>
                      \A k \in DOMAIN run_coll0[n].data :
                          StaleEntry(run_coll0[n].data[k]) =>
                              run_coll0[n].data[k] \in Removed(n)

\* ---- the deletion record

\* the location entries of run document n that the step takes out
PulledFrom(n) ==
    { run_coll[n].data[k] :
        k \in { j \in DOMAIN run_coll[n].data :
                  \A i \in DOMAIN run_coll'[n].data :
                      run_coll'[n].data[i] # run_coll[n].data[j] } }

\* C32: a step that appends a deletion record to a run document removes a
\* location entry from that document in the same update, and the record
\* carries the data type and the host of every entry so removed and the
\* reason delete_data was called with; no record is appended for a data type
\* of which the run document holds no entry on this host or on "daq".
C32_RecordDescribesRemoved ==
    [][\A n \in DOMAIN run_coll :
         Len(run_coll'[n].deleted_data) > Len(run_coll[n].deleted_data) =>
             LET rec == run_coll'[n].deleted_data[Len(run_coll'[n].deleted_data)]
             IN  /\ rec.reason = ev'.dd.reason
                 /\ rec.type = ev'.dd.type
                 /\ PulledFrom(n) # {}
                 /\ \A e \in PulledFrom(n) : e.type = rec.type /\ e.host = rec.host]_vars

\* ---- a folder and its _temp folder

\* the deletion records of run document n for location entry e
RecordsOf(n, e) ==
    { k \in DOMAIN run_coll[n].deleted_data :
        /\ run_coll[n].deleted_data[k].type = e.type
        /\ run_coll[n].deleted_data[k].host = e.host }

\* an entry of this host whose folder and _temp folder were both on disk
\* when ajax started
WithTemp(e) ==
    /\ e.host = hostname
    /\ Exists(fs0, e.location)
    /\ Exists(fs0, TempOf(e.location))

\* C33: when ajax --number --production (without --delete_live) has removed
\* an entry of this host whose folder and _temp folder were both on disk,
\* the run document holds exactly one deletion record for that entry, not
\* one for each folder.
C33_OneRecordPerEntry ==
    (args.number # 0 /\ ~args.delete_live /\ args.production /\ pc = "finished") =>
        \A n \in DOMAIN run_coll0 : \A e \in Removed(n) :
            WithTemp(e) => Cardinality(RecordsOf(n, e)) = 1

\* ---- the two kinds of entries in remove_run_from_host

\* C34: ajax --number --delete_live neither removes a folder outside
\* ceph_location nor takes an entry of this host out of a run document, and
\* ajax --number without --delete_live neither removes a folder below
\* ceph_location nor takes an entry of "daq" out of a run document, also
\* when the run registers the same data type on this host and on "daq".
C34_OtherKindUntouched ==
    args.number # 0 =>
        /\ \A p \in fs0 : (IsPrefix(ceph_location, p) # args.delete_live) => p \in fs
        /\ \A n \in DOMAIN run_coll0 : \A e \in Removed(n) :
             IF args.delete_live THEN e.host # hostname ELSE e.host # DAQ

\* ---- live data without raw_records

\* the run document remove_run_from_host read registers no raw_records
NoRawRecords(rd) == \A k \in DOMAIN rd.data : rd.data[k].type # "raw_records"

\* the loop of remove_run_from_host stands at an entry of "daq" that it was
\* asked to delete without force
AtSharedEntry ==
    /\ pc = "rrfh_loop"
    /\ r.delete_live
    /\ ~r.force
    /\ r.di \in DOMAIN r.rd.data
    /\ r.rd.data[r.di].host = DAQ

\* C35: without force, remove_run_from_host starts no deletion thread for
\* the entry of "daq" of a run document that registers no raw_records: the
\* step reports the deletion as unsafe and changes neither the disks nor the
\* runs database; after ajax --number --delete_live without --force for such
\* a run the entry of "daq" and the folders below ceph_location are still
\* there.
C35_UnsafeLiveKept ==
    /\ [][(AtSharedEntry /\ NoRawRecords(r.rd) /\ r' # r) =>
             /\ ev'.kind = "unsafe_no_raw_records"
             /\ threads' = threads
             /\ fs' = fs
             /\ run_coll' = run_coll]_vars
    /\ []((args.number # 0 /\ args.delete_live /\ ~args.force) =>
             \A n \in DOMAIN run_coll0 :
                 NoRawRecords(run_coll0[n]) =>
                     /\ EntriesOf(run_coll0[n], DAQ) \subseteq EntriesOf(run_coll[n], DAQ)
                     /\ \A p \in fs0 : IsPrefix(ceph_location, p) => p \in fs)

\* C35 happens: under --production the deletion of the live data of a run
\* without raw_records has been reported as unsafe and ajax has finished
C35_Witness ==
    /\ args.production
    /\ args.delete_live
    /\ ~args.force
    /\ pc = "finished"
    /\ \E n \in DOMAIN run_coll0 :
         /\ NoRawRecords(run_coll0[n])
         /\ EntriesOf(run_coll0[n], DAQ) # {}
         /\ Exists(fs0, JoinRunId(ceph_location, n))

\* ---- raw_records without live data

\* a data type of the raw_records kind
RawKind == {"raw_records", "raw_records_nv"}

\* the run document registers no entry of type "live"
NoLive(rd) == \A k \in DOMAIN rd.data : rd.data[k].type # "live"

\* the loop of remove_run_from_host stands at an entry of this host that it
\* was asked to delete without force
AtOwnEntry ==
    /\ pc = "rrfh_loop"
    /\ ~r.delete_live
    /\ ~r.force
    /\ r.di \in DOMAIN r.rd.data
    /\ r.rd.data[r.di].host = hostname

Quarantined(p) == [p EXCEPT ![1] = non_registered_folder]

\* run n has a location of this host registered under the cleaned folder
RegisteredUnder(n, root) ==
    /\ n \in DOMAIN run_coll
    /\ \E k \in DOMAIN run_coll[n].data :
         /\ run_coll[n].data[k].host = hostname
         /\ StartsWith(run_coll[n].data[k].location, root)

\* C37: ajax --clean unregistered (or production) never removes a folder:
\* every folder that was on disk is still there or is found in
\* non_registered_folder.  A step changes the disk only under --production
\* and only by moving one folder of the cleaned folder to
\* non_registered_folder, for a run that has no location of this host
\* registered under the cleaned folder and whose run document, read again,
\* passes the check of the live and raw_records copies.
C37_MovedNeverRemoved ==
    /\ [](args.clean \in {"unregistered", "production"} =>
             \A p \in fs0 : p \in fs \/ Quarantined(p) \in fs)
    /\ [][(args.clean \in {"unregistered", "production"} /\ fs' # fs) =>
             /\ args.production
             /\ \E folder \in fs :
                  LET n == RunNumber(RunIdOf(folder))
                  IN  /\ folder[1] = clean_from(args.clean)
                      /\ fs' = (fs \ {folder}) \cup {Quarantined(folder)}
                      /\ ~RegisteredUnder(n, clean_from(args.clean))
                      /\ n \in DOMAIN run_coll
                      /\ SafetyCheckOk(run_coll[n], TypeOf(folder))]_vars

\* C37 happens: under --production a folder of an unregistered run is in
\* non_registered_folder and no longer where it was
C37_Witness ==
    /\ args.clean \in {"unregistered", "production"}
    /\ args.production
    /\ \E p \in fs0 : p \notin fs /\ Quarantined(p) \in fs

\* ---- ajax --clean all without --production

\* the loop with an alert sink that may fail
NextLoop ==
    \/ NextExit
    \/ log_warning_raises

\* every step the process can take is taken in the end: the control thread
\* and the deletion threads go on running; nothing is assumed of the alert
\* sink and of the signals
SpecLoopFair ==
    /\ InitExit
    /\ [][NextLoop]_vars
    /\ WF_vars(NextAll \/ uncaught \/ main_except)
    /\ WF_vars(DeletionThreads)

\* C38: ajax --clean all without --production comes to its end: a pass of
\* the loop that raised nothing is followed by the return of main_ajax and
\* by no nap, and a pass that raised an error is followed by a new pass, but
\* in the end the process has exited (an interrupt may end it earlier).
C38_DryRunTerminates ==
    /\ [][(args.clean = "all" /\ ~args.production) =>
             /\ ev'.kind # "nap_time"
             /\ (pc = "all_end" /\ pc' # pc /\ signal' = signal) =>
                    pc' = "main_return"]_vars
    /\ (args.clean = "all" /\ ~args.production) ~> (pc \in {"finished", "crashed"})

====
